---- MODULE Spec2Model ----
(***************************************************************************)
(* Model of the native interop boundary of MixedReality-WebRTC             *)
(* (interop_api.cpp): the session facade and its handle validation, the    *)
(* local video track reference counting, the signaling-thread dispatch of  *)
(* capture-device acquisition, the callback registration slots, and the    *)
(* statistics report lifetime and join (mrsStatsReportGetObjects).         *)
(***************************************************************************)
EXTENDS Integers, Sequences, FiniteSets, TLC

(***************************************************************************)
(* Values                                                                  *)
(***************************************************************************)

\* A null pointer / null handle.
NULL == "nullptr"
\* The live session handle, and any other live native handle passed in.
PEER == "peer"
HND == "handle"
\* The content of an output variable the callee has not written.
STALE == "stale"
\* The signaling thread of the global factory.
SIG == "signaling"
\* Threads of the foreign caller.
Callers == {"t1", "t2"}
\* Local video track objects that can be allocated.
TrackIds == {"trk1", "trk2"}
\* No value yet.
NONE == "none"

\* How many capture-device acquisitions are submitted in one behaviour.
MaxInvokes == 2

\* mrsResult codes.
kSuccess == "kSuccess"
kUnknownError == "kUnknownError"
kInvalidParameter == "kInvalidParameter"
kInvalidOperation == "kInvalidOperation"
kNotFound == "kNotFound"
kInvalidNativeHandle == "kInvalidNativeHandle"
kPeerConnectionClosed == "kPeerConnectionClosed"

\* The result codes BuiltinVideoCaptureDeviceTrackSource::Create can return.
CreateResults == {kSuccess, kUnknownError, kNotFound, kInvalidOperation}

\* Error codes the engine reports through ErrorOr / mrsResult returns.
EngineErrors == {kUnknownError, kInvalidOperation, kPeerConnectionClosed}

VARIABLES
  pc,         \* per caller: position inside mrsPeerConnectionAddLocalVideoTrack*
  frame,      \* per caller: arguments and locals of the call in progress
  last,       \* the most recently returned facade call: arguments and result
  factory,    \* GlobalFactory::GetExisting() is non-null
  sigQueue,   \* functors submitted to the signaling thread, oldest first
  creating,   \* executions of Create in progress: [caller, thread]
  taskState,  \* per caller: state of its functor on the signaling thread
  submitted,  \* history: callers in the order they submitted a functor
  started,    \* history: callers in the order their functor began executing
  tracks,     \* per track id: the LocalVideoTrack object and who holds it
  pool,       \* the track ids the session can still or did allocate
  slots,      \* per event kind: the registered Callback {callback_, user_data_}
  cbMutex,    \* per event kind: the thread holding the slot's mutex
  regCall,    \* the mrsPeerConnectionRegister*Callback call in progress
  dlvCall,    \* the event the engine thread is delivering
  delivered,  \* the most recent callback invocation
  lastReg,    \* history: per register function, the pair of its last completed call
  statsPending, \* GetStats requests the engine has not answered yet
  report,     \* the RTCStatsReport object: records, reference count, holders
  statsCall,  \* the most recent mrsStatsReportGetObjects call and what it emitted
  config,     \* the VideoDeviceConfiguration of the AddLocalVideoTrack calls
  devices,    \* the capture devices of the machine, in enumeration order
  capture,    \* the most recent BuiltinVideoCaptureDeviceTrackSource::Create
  dc,         \* the mrsPeerConnectionAddDataChannel call and the channel it makes
  dcDelivered, \* the most recent event of the data channel and the slot it met
  session,    \* the PeerConnection object behind the session handle
  sdp,        \* the arguments and the outcome of mrsSdpForceCodecs
  bitrate,    \* the BitrateSettings the engine was given last
  mem,        \* the buffers and arguments of mrsMemCpyStride
  enumCall    \* the most recent call of an mrsEnumVideoCapture function

trackVars == <<pc, frame, factory, sigQueue, creating, taskState,
               submitted, started, tracks, pool>>
cbVars == <<slots, cbMutex, regCall, dlvCall, delivered, lastReg>>
statsVars == <<statsPending, report, statsCall>>
devVars == <<config, devices, capture>>
dcVars == <<dc, dcDelivered>>

vars == <<pc, frame, last, factory, sigQueue, creating, taskState,
          submitted, started, tracks, pool, slots, cbMutex, regCall, dlvCall,
          delivered, lastReg, statsPending, report, statsCall, config,
          devices, capture, dc, dcDelivered, session, sdp, bitrate, mem, enumCall>>

(***************************************************************************)
(* Records                                                                 *)
(***************************************************************************)

\* The locals of a caller that is not inside a track-adding call.
IdleFrame == [op |-> NONE, res |-> NONE, trk |-> NONE]

\* No LocalVideoTrack object has been allocated under this id.
NoTrack == [status |-> NONE, refs |-> 0, inSession |-> FALSE,
            handle |-> FALSE, temp |-> FALSE, ext |-> FALSE]

\* A returned facade call. outPtr: the output-handle pointer argument was
\* non-null (FALSE also for operations without one); out: what the caller's
\* output variable, which held STALE before the call, holds after it;
\* engine: the call reached the engine (a PeerConnection method, the
\* peer connection factory or the signaling thread).
Returned(op, peer, name, aux, outPtr, out, ret, engine) ==
  [op |-> op, peer |-> peer, name |-> name, aux |-> aux, outPtr |-> outPtr,
   out |-> out, ret |-> ret, engine |-> engine]

NoCall == Returned(NONE, NULL, NONE, NONE, FALSE, STALE, NONE, FALSE)

\* IsStringNullOrEmpty
IsStringNullOrEmpty(str) == str = NULL \/ str = ""

\* Track names a caller passes.
Names == {"", "cam"}

FreeIds == {id \in pool : tracks[id].status = NONE}

(***************************************************************************)
(* Reference counting of LocalVideoTrack (RefCountedBase)                  *)
(***************************************************************************)

\* RemoveRef: the object is destroyed when the count reaches zero.
Unref(trk) ==
  IF trk.refs <= 1
    THEN [trk EXCEPT !.refs = 0, !.status = "destroyed"]
    ELSE [trk EXCEPT !.refs = @ - 1]

\* PeerConnection::AddLocalVideoTrack succeeded: the session keeps one
\* reference and the returned RefPtr (the ErrorOr temporary) holds another.
PeerAddLocalVideoTrack(isExt) ==
  [status |-> "alive", refs |-> 2, inSession |-> TRUE, handle |-> FALSE,
   temp |-> TRUE, ext |-> isExt]

\* The session drops its reference to every track of the set ids.
PeerRemoveTracks(ids) ==
  [id \in TrackIds |->
     IF id \in ids /\ tracks[id].inSession
       THEN Unref([tracks[id] EXCEPT !.inSession = FALSE])
       ELSE tracks[id]]

\* video_track_wrapper->AddRef() "for the handle": the references the facade
\* adds for the handle it returns. The external-source variant adds none: it
\* hands the temporary's own reference over with release().
AddRefForHandle_none(op) == 0

AddRefForHandle(op) == IF op = "AddLocalVideoTrack" THEN 1 ELSE 0

\* The references the ErrorOr temporary drops when the call returns: its
\* RefPtr is still set in AddLocalVideoTrack and was emptied by release() in
\* the external-source variant.
ResultDtorRelease(op) == IF op = "AddLocalVideoTrack" THEN 1 ELSE 0

\* The track object after the facade has produced the caller's handle.
HandOver(trk, op) ==
  LET n == trk.refs + AddRefForHandle(op) - ResultDtorRelease(op)
      t == [trk EXCEPT !.handle = TRUE, !.temp = FALSE]
  IN  IF n <= 0 THEN [t EXCEPT !.refs = 0, !.status = "destroyed"]
      ELSE [t EXCEPT !.refs = n]

(***************************************************************************)
(* rtc::Thread::Invoke on the signaling thread                             *)
(***************************************************************************)

\* The thread that executes a functor its caller hands to
\* signaling_thread->Invoke.
InvokeThread_caller(t) == t

InvokeThread(t) == SIG

\* Invoke returns to its caller once the functor has run and left its result.
InvokeReturned_nowait(t) == TRUE

InvokeReturned(t) == taskState[t] = "done"

\* The functor the signaling thread takes next: the oldest one submitted.
NextTask_newest(q) == Len(q)

NextTask(q) == 1

RemoveAt(q, i) == [j \in 1..(Len(q) - 1) |-> IF j < i THEN q[j] ELSE q[j + 1]]

\* The caller's call has returned: it is idle again and `last` describes it.
Return(t, rec) ==
  /\ pc' = [pc EXCEPT ![t] = "idle"]
  /\ frame' = [frame EXCEPT ![t] = IdleFrame]
  /\ last' = rec

(***************************************************************************)
(* BuiltinVideoCaptureDeviceTrackSource: giving up the capture module      *)
(***************************************************************************)

\* Destroy without the call of StopCapture.
Destroy_no_stop(c) ==
  IF c.vcm_ = NULL THEN c
  ELSE [c EXCEPT !.registered = @ \ {c.vcm_}, !.live = @ \ {c.vcm_},
                 !.vcm_ = NULL]

\* Lines 195-202: StopCapture, DeRegisterCaptureDataCallback, and vcm_
\* gives up the only reference to the module.
Destroy(c) ==
  IF c.vcm_ = NULL THEN c
  ELSE [c EXCEPT !.capturing = @ \ {c.vcm_}, !.registered = @ \ {c.vcm_},
                 !.live = @ \ {c.vcm_}, !.vcm_ = NULL]

\* Line 164: the last reference to the source goes and its destructor runs
\* Destroy.
ReleaseSource(c) == [Destroy(c) EXCEPT !.source = FALSE]

\* The session rejected the track: the track is dropped, and the source
\* with the last reference to it.
RejectedTrackReleased(c) == ReleaseSource(c)

(***************************************************************************)
(* mrsPeerConnectionAddLocalVideoTrack                                     *)
(***************************************************************************)

\* Lines 664-684: parameter, handle and factory checks. ret = NONE when all
\* pass; out is the caller's output variable afterwards.
AddLocalVideoTrackChecks(peer, name, outPtr) ==
  IF IsStringNullOrEmpty(name)
    THEN [ret |-> kInvalidParameter, out |-> STALE]
  ELSE IF ~outPtr
    THEN [ret |-> kInvalidParameter, out |-> STALE]
  ELSE IF peer = NULL
    THEN [ret |-> kInvalidNativeHandle, out |-> NULL]
  ELSE IF ~factory
    THEN [ret |-> kInvalidOperation, out |-> NULL]
  ELSE [ret |-> NONE, out |-> NULL]

\* The call up to the point where it blocks in signaling_thread->Invoke.
mrsPeerConnectionAddLocalVideoTrack(t, peer, name, outPtr) ==
  LET c == AddLocalVideoTrackChecks(peer, name, outPtr) IN
  /\ pc[t] = "idle"
  /\ IF c.ret # NONE
       THEN /\ Return(t, Returned("AddLocalVideoTrack", peer, name, NONE,
                                  outPtr, c.out, c.ret, FALSE))
            /\ UNCHANGED <<sigQueue, taskState, submitted>>
       ELSE /\ Len(submitted) < MaxInvokes
            /\ pc' = [pc EXCEPT ![t] = "invoke"]
            /\ frame' = [frame EXCEPT ![t] =
                           [op |-> "AddLocalVideoTrack", res |-> NONE,
                            trk |-> NONE]]
            /\ sigQueue' = Append(sigQueue, t)
            /\ taskState' = [taskState EXCEPT ![t] = "queued"]
            /\ submitted' = Append(submitted, t)
            /\ UNCHANGED last
  /\ UNCHANGED <<factory, creating, started, tracks, pool, cbVars, statsVars,
                 devVars, dcVars, session, sdp, bitrate, mem, enumCall>>

\* The thread that executes the functors takes the next one and enters
\* BuiltinVideoCaptureDeviceTrackSource::Create. A thread runs one functor
\* at a time.
SignalingBeginCreate ==
  /\ sigQueue # <<>>
  /\ LET i == NextTask(sigQueue)
         t == sigQueue[i]
     IN  /\ \A c \in creating : c.thread # InvokeThread(t)
         /\ sigQueue' = RemoveAt(sigQueue, i)
         /\ creating' = creating \cup
                          {[caller |-> t, thread |-> InvokeThread(t)]}
         /\ taskState' = [taskState EXCEPT ![t] = "running"]
         /\ started' = Append(started, t)
  /\ UNCHANGED <<pc, frame, last, factory, submitted, tracks, pool, cbVars,
                 statsVars, devVars, dcVars, session, sdp, bitrate, mem, enumCall>>

\* Create returns res on the thread that ran it; res and video_source are
\* set and Invoke lets the caller go on.
EndCreate(res) ==
  /\ \E c \in creating :
       /\ frame' = [frame EXCEPT ![c.caller].res = res]
       /\ taskState' = [taskState EXCEPT ![c.caller] = "done"]
       /\ creating' = creating \ {c}
  /\ UNCHANGED <<pc, last, factory, sigQueue, submitted, started, tracks,
                 pool, cbVars, statsVars>>

\* Create seen from the caller: one of its result codes, whatever the devices.
SignalingEndCreate(res) ==
  /\ EndCreate(res)
  /\ UNCHANGED <<devVars, dcVars, session, sdp, bitrate, mem, enumCall>>

\* Lines 698-716: after Invoke returned, up to peer->AddLocalVideoTrack.
\* trackOk: CreateVideoTrack returned a track; added: the id of the wrapper
\* the session created, NONE when the session rejected the track.
AddLocalVideoTrackResume(t, trackOk, added) ==
  /\ pc[t] = "invoke"
  /\ frame[t].op = "AddLocalVideoTrack"
  /\ InvokeReturned(t)
  /\ added \in FreeIds \cup {NONE}
  /\ LET res == frame[t].res
         fail(code) == Return(t, Returned("AddLocalVideoTrack", PEER, "cam",
                                          NONE, TRUE, NULL, code, TRUE))
     IN  IF res # kSuccess
           THEN fail(res) /\ capture' = ReleaseSource(capture)
                          /\ UNCHANGED tracks
         ELSE IF ~trackOk
           THEN fail(kUnknownError) /\ capture' = ReleaseSource(capture)
                                    /\ UNCHANGED tracks
         ELSE IF added = NONE
           THEN fail(kUnknownError)
                /\ capture' = RejectedTrackReleased(capture)
                /\ UNCHANGED tracks
         ELSE /\ tracks' = [tracks EXCEPT ![added] =
                              PeerAddLocalVideoTrack(FALSE)]
              /\ pc' = [pc EXCEPT ![t] = "handoff"]
              /\ frame' = [frame EXCEPT ![t].trk = added]
              /\ UNCHANGED <<last, capture>>
  /\ UNCHANGED <<factory, sigQueue, creating, taskState, submitted, started,
                 pool, cbVars, statsVars, config, devices, dcVars, session,
                 sdp, bitrate, mem, enumCall>>

\* Lines 717-720 and 765-766: the handle is produced and the call returns.
AddLocalVideoTrackReturn(t) ==
  /\ pc[t] = "handoff"
  /\ LET id == frame[t].trk
         op == frame[t].op
     IN  /\ tracks' = [tracks EXCEPT ![id] = HandOver(@, op)]
         /\ Return(t, Returned(op, PEER, "cam", IF op = "AddLocalVideoTrack"
                                                  THEN NONE ELSE HND,
                                TRUE, id, kSuccess, TRUE))
  /\ UNCHANGED <<factory, sigQueue, creating, taskState, submitted, started,
                 pool, cbVars, statsVars, devVars, dcVars, session, sdp,
                 bitrate, mem, enumCall>>

(***************************************************************************)
(* mrsPeerConnectionAddLocalVideoTrackFromExternalSource                   *)
(***************************************************************************)

\* Lines 732-748: ret = NONE when every check passes.
AddLocalVideoTrackFromExternalSourceChecks(peer, source, outPtr) ==
  IF ~outPtr
    THEN [ret |-> kInvalidParameter, out |-> STALE]
  ELSE IF peer = NULL
    THEN [ret |-> kInvalidNativeHandle, out |-> NULL]
  ELSE IF source = NULL
    THEN [ret |-> kInvalidNativeHandle, out |-> NULL]
  ELSE IF ~factory
    THEN [ret |-> kUnknownError, out |-> NULL]
  ELSE [ret |-> NONE, out |-> NULL]

\* The call up to the return of peer->AddLocalVideoTrack (line 763).
mrsPeerConnectionAddLocalVideoTrackFromExternalSource(t, peer, name, source, outPtr, trackOk, added) ==
  LET c == AddLocalVideoTrackFromExternalSourceChecks(peer, source, outPtr)
      op == "AddLocalVideoTrackFromExternalSource"
      ret(code, eng) == Return(t, Returned(op, peer, name, source, outPtr,
                                           c.out, code, eng))
  IN
  /\ pc[t] = "idle"
  /\ added \in FreeIds \cup {NONE}
  /\ IF c.ret # NONE THEN ret(c.ret, FALSE) /\ UNCHANGED tracks
     ELSE IF ~trackOk THEN ret(kUnknownError, TRUE) /\ UNCHANGED tracks
     ELSE IF added = NONE THEN ret(kUnknownError, TRUE) /\ UNCHANGED tracks
     ELSE /\ tracks' = [tracks EXCEPT ![added] = PeerAddLocalVideoTrack(TRUE)]
          /\ pc' = [pc EXCEPT ![t] = "handoff"]
          /\ frame' = [frame EXCEPT ![t] =
                         [op |-> op, res |-> NONE, trk |-> added]]
          /\ UNCHANGED last
  /\ UNCHANGED <<factory, sigQueue, creating, taskState, submitted, started,
                 pool, cbVars, statsVars, devVars, dcVars, session, sdp,
                 bitrate, mem, enumCall>>

(***************************************************************************)
(* Removing tracks, releasing the caller's handle                          *)
(***************************************************************************)

\* A caller thread is free to enter a facade function.
CanCall == \E t \in Callers : pc[t] = "idle"

\* A facade call that returns at once and leaves every track, thread and
\* registration as it is.
PassThrough(rec) ==
  /\ CanCall
  /\ last' = rec
  /\ UNCHANGED <<trackVars, cbVars, statsVars, devVars, dcVars, session, sdp,
                 bitrate, mem, enumCall>>

\* A facade call that returns at once after the session dropped the tracks ids.
RemovingCall(rec, ids) ==
  /\ CanCall
  /\ last' = rec
  /\ tracks' = PeerRemoveTracks(ids)
  /\ UNCHANGED <<pc, frame, factory, sigQueue, creating, taskState, submitted,
                 started, pool, cbVars, statsVars, devVars, dcVars, session,
                 sdp, bitrate, mem, enumCall>>

\* Track handles a caller can pass: null, or one it holds.
HeldHandles == {id \in TrackIds : tracks[id].handle}

\* Lines 848-863. PeerConnection::RemoveLocalVideoTrack succeeds when the
\* session holds the track.
mrsPeerConnectionRemoveLocalVideoTrack(peer, track) ==
  LET rec(code, eng) == Returned("RemoveLocalVideoTrack", peer, NONE,
                                 IF track = NULL THEN NULL ELSE HND, FALSE,
                                 STALE, code, eng)
  IN
  /\ track \in HeldHandles \cup {NULL}
  /\ IF peer = NULL THEN RemovingCall(rec(kInvalidNativeHandle, FALSE), {})
     ELSE IF track = NULL
       THEN RemovingCall(rec(kInvalidNativeHandle, FALSE), {})
     ELSE IF tracks[track].inSession
       THEN RemovingCall(rec(kSuccess, TRUE), {track})
     ELSE RemovingCall(rec(kUnknownError, TRUE), {})

\* Lines 773-786: every track of the session made from an external source.
mrsPeerConnectionRemoveLocalVideoTracksFromSource(peer, source) ==
  LET rec(code, eng) == Returned("RemoveLocalVideoTracksFromSource", peer,
                                 NONE, source, FALSE, STALE, code, eng)
  IN
  IF peer = NULL THEN RemovingCall(rec(kInvalidNativeHandle, FALSE), {})
  ELSE IF source = NULL
    THEN RemovingCall(rec(kInvalidNativeHandle, FALSE), {})
  ELSE RemovingCall(rec(kSuccess, TRUE),
                    {id \in TrackIds : tracks[id].ext})

\* The session as mrsPeerConnectionCreate hands it out. state: the
\* engine's view of the connection; again: a Close reached the engine after
\* an earlier one; released: the PeerConnection object was destroyed;
\* crashed: a method was called on the destroyed object.
OpenSession == [state |-> "open", again |-> FALSE, released |-> FALSE,
                crashed |-> FALSE]

\* PeerConnection::Close: the engine accepts it on a closed connection.
PeerClose(s) ==
  IF s.released THEN [s EXCEPT !.crashed = TRUE]
  ELSE [s EXCEPT !.state = "closed", !.again = @ \/ s.state = "closed"]

\* Lines 981-984 with a release of the session object after the close.
CloseSession_release(s) == [PeerClose(s) EXCEPT !.released = TRUE]

\* Lines 981-984: peer->Close() and nothing else.
CloseSession(s) == PeerClose(s)

\* Lines 979-986. PeerConnection::Close severs the session from its tracks.
mrsPeerConnectionClose(peer) ==
  LET rec(code, eng) == Returned("Close", peer, NONE, NONE, FALSE, STALE,
                                 code, eng)
  IN
  /\ CanCall
  /\ last' = IF peer = NULL THEN rec(kInvalidNativeHandle, FALSE)
             ELSE rec(kSuccess, TRUE)
  /\ tracks' = IF peer = NULL THEN tracks ELSE PeerRemoveTracks(TrackIds)
  /\ session' = IF peer = NULL THEN session ELSE CloseSession(session)
  /\ UNCHANGED <<pc, frame, factory, sigQueue, creating, taskState, submitted,
                 started, pool, cbVars, statsVars, devVars, dcVars, sdp,
                 bitrate, mem, enumCall>>

\* mrsLocalVideoTrackRemoveRef: the caller gives up the handle it was given.
LocalVideoTrackRemoveRef(id) ==
  /\ CanCall
  /\ tracks[id].handle
  /\ tracks' = [tracks EXCEPT ![id] = Unref([@ EXCEPT !.handle = FALSE])]
  /\ UNCHANGED <<pc, frame, last, factory, sigQueue, creating, taskState,
                 submitted, started, pool, cbVars, statsVars, devVars,
                 dcVars, session, sdp, bitrate, mem, enumCall>>

(***************************************************************************)
(* The remaining session facade                                            *)
(***************************************************************************)

\* What the engine answers when it reports an mrsResult.
EngineResults == {kSuccess} \cup EngineErrors

\* Lines 500-516.
mrsPeerConnectionCreate(interop, outPtr, res) ==
  LET rec(out, code, eng) == Returned("Create", NONE, NONE, interop, outPtr,
                                      out, code, eng)
  IN
  IF ~outPtr \/ interop = NULL
    THEN PassThrough(rec(STALE, kInvalidParameter, FALSE))
  ELSE IF res # kSuccess THEN PassThrough(rec(NULL, res, TRUE))
  ELSE PassThrough(rec(HND, kSuccess, TRUE))

\* Lines 518-528.
mrsPeerConnectionRegisterInteropCallbacks(peer, callbacks, res) ==
  LET rec(code, eng) == Returned("RegisterInteropCallbacks", peer, NONE,
                                 callbacks, FALSE, STALE, code, eng)
  IN
  IF callbacks = NULL THEN PassThrough(rec(kInvalidParameter, FALSE))
  ELSE IF peer # NULL THEN PassThrough(rec(res, TRUE))
  ELSE PassThrough(rec(kInvalidNativeHandle, FALSE))

\* Lines 788-810. audioSource, audioTrack: the factory returned an object;
\* added: PeerConnection::AddLocalAudioTrack returned true.
mrsPeerConnectionAddLocalAudioTrack(peer, audioSource, audioTrack, added) ==
  LET rec(code, eng) == Returned("AddLocalAudioTrack", peer, NONE, NONE,
                                 FALSE, STALE, code, eng)
  IN
  IF peer # NULL
    THEN IF ~factory THEN PassThrough(rec(kInvalidOperation, FALSE))
         ELSE IF ~audioSource THEN PassThrough(rec(kUnknownError, TRUE))
         ELSE IF ~audioTrack THEN PassThrough(rec(kUnknownError, TRUE))
         ELSE IF added THEN PassThrough(rec(kSuccess, TRUE))
         ELSE PassThrough(rec(kUnknownError, TRUE))
    ELSE PassThrough(rec(kUnknownError, FALSE))

\* Lines 812-846. res: the result of PeerConnection::AddDataChannel.
mrsPeerConnectionAddDataChannel(peer, interop, outPtr, res) ==
  LET rec(out, code, eng) == Returned("AddDataChannel", peer, NONE, interop,
                                      outPtr, out, code, eng)
  IN
  IF ~outPtr \/ interop = NULL
    THEN PassThrough(rec(STALE, kInvalidParameter, FALSE))
  ELSE IF peer = NULL THEN PassThrough(rec(NULL, kInvalidNativeHandle, FALSE))
  ELSE IF res = kSuccess THEN PassThrough(rec(HND, kSuccess, TRUE))
  ELSE PassThrough(rec(NULL, res, TRUE))

\* Lines 872-885.
mrsPeerConnectionRemoveDataChannel(peer, dataChannel) ==
  LET rec(code, eng) == Returned("RemoveDataChannel", peer, NONE, dataChannel,
                                 FALSE, STALE, code, eng)
  IN
  IF peer = NULL THEN PassThrough(rec(kInvalidNativeHandle, FALSE))
  ELSE IF dataChannel = NULL
    THEN PassThrough(rec(kInvalidNativeHandle, FALSE))
  ELSE PassThrough(rec(kSuccess, TRUE))

\* Lines 887-896.
mrsPeerConnectionSetLocalAudioTrackEnabled(peer) ==
  LET rec(code, eng) == Returned("SetLocalAudioTrackEnabled", peer, NONE,
                                 NONE, FALSE, STALE, code, eng)
  IN
  IF peer = NULL THEN PassThrough(rec(kInvalidNativeHandle, FALSE))
  ELSE PassThrough(rec(kSuccess, TRUE))

\* The shape of lines 919-946 and 968-977: the engine answers with a bool.
BoolPassThrough(op, peer, ok) ==
  LET rec(code, eng) == Returned(op, peer, NONE, NONE, FALSE, STALE, code, eng)
  IN
  IF peer # NULL
    THEN PassThrough(rec(IF ok THEN kSuccess ELSE kUnknownError, TRUE))
    ELSE PassThrough(rec(kInvalidNativeHandle, FALSE))

mrsPeerConnectionAddIceCandidate(peer, ok) ==
  BoolPassThrough("AddIceCandidate", peer, ok)

mrsPeerConnectionCreateOffer(peer, ok) ==
  BoolPassThrough("CreateOffer", peer, ok)

mrsPeerConnectionCreateAnswer(peer, ok) ==
  BoolPassThrough("CreateAnswer", peer, ok)

mrsPeerConnectionSetRemoteDescription(peer, ok) ==
  BoolPassThrough("SetRemoteDescription", peer, ok)

\* An optional bound of BitrateSettings that is not set.
Unset == [has |-> FALSE, v |-> 0]

\* Lines 954-962 with a test for a positive argument.
OptionalBitrate_positive(bps) ==
  IF bps > 0 THEN [has |-> TRUE, v |-> bps] ELSE Unset

\* Lines 954-962: a bound is set when its argument is not negative.
OptionalBitrate(bps) ==
  IF bps >= 0 THEN [has |-> TRUE, v |-> bps] ELSE Unset

\* Lines 953-962: the settings made from the three arguments.
BitrateSettings(min_bitrate_bps, start_bitrate_bps, max_bitrate_bps) ==
  [min_bitrate_bps |-> OptionalBitrate(min_bitrate_bps),
   start_bitrate_bps |-> OptionalBitrate(start_bitrate_bps),
   max_bitrate_bps |-> OptionalBitrate(max_bitrate_bps)]

\* BitrateSettings{}: no bound is set.
DefaultBitrateSettings ==
  [min_bitrate_bps |-> Unset, start_bitrate_bps |-> Unset,
   max_bitrate_bps |-> Unset]

\* The bitrate arguments a caller passes.
BitrateArgs == {-1000, -1, 0, 1000}

\* The bitrate arguments of the calls of the facade specification.
FacadeBitrateArgs == {-1}

\* Lines 948-966. res: the result of PeerConnection::SetBitrate.
mrsPeerConnectionSetBitrate(peer, min_bps, start_bps, max_bps, res) ==
  LET rec(code, eng) == Returned("SetBitrate", peer, NONE, NONE, FALSE, STALE,
                                 code, eng)
  IN
  /\ CanCall
  /\ last' = IF peer # NULL THEN rec(res, TRUE)
             ELSE rec(kInvalidNativeHandle, FALSE)
  /\ bitrate' = IF peer # NULL
                  THEN BitrateSettings(min_bps, start_bps, max_bps)
                  ELSE bitrate
  /\ UNCHANGED <<trackVars, cbVars, statsVars, devVars, dcVars, session,
                 sdp, mem, enumCall>>

(***************************************************************************)
(* Statistics reports: the records of an RTCStatsReport                    *)
(***************************************************************************)

\* An RTCStatsMember that is not defined.
UNDEFINED == "undefined"

\* How many records a report holds at most.
MaxReportLen == 3

\* GetStats requests that can be outstanding at once.
MaxPending == 1

\* A record of a report. type is RTCStats::type(), id is RTCStats::id();
\* the other fields are the members the join reads, zero or empty where
\* the record type has no such member.
StatsRecord(type, kind, id, track_id, remote, packets, level) ==
  [type |-> type, kind |-> kind, id |-> id, track_id |-> track_id,
   remote_source |-> remote, timestamp_us |-> 1000,
   packets |-> packets, bytes |-> packets * 100, frames |-> packets + 1,
   track_identifier |-> IF type = "track" THEN "mid-" \o id ELSE "",
   level |-> level]

\* The records reports are built from.
StatsRecords ==
  { StatsRecord("outbound-rtp", "audio", "RTP1", "T1", FALSE, 10, 0),
    StatsRecord("outbound-rtp", "audio", "RTP1b", "T1", FALSE, 15, 0),
    StatsRecord("outbound-rtp", "audio", "RTP2", UNDEFINED, FALSE, 20, 0),
    StatsRecord("outbound-rtp", "video", "RTP3", "T1", FALSE, 30, 0),
    StatsRecord("inbound-rtp", "audio", "RTP4", "T1", FALSE, 40, 0),
    StatsRecord("inbound-rtp", "audio", "RTP5", UNDEFINED, FALSE, 50, 0),
    StatsRecord("track", "audio", "T1", UNDEFINED, FALSE, 0, 5),
    StatsRecord("track", "audio", "T2", UNDEFINED, FALSE, 0, 6),
    StatsRecord("track", "audio", "T1", UNDEFINED, TRUE, 0, 7),
    StatsRecord("track", "video", "T1", UNDEFINED, FALSE, 0, 8),
    StatsRecord("data-channel", "", "DC1", UNDEFINED, FALSE, 3, 0),
    StatsRecord("transport", "", "TR1", UNDEFINED, FALSE, 4, 0) }

\* The reports the engine can deliver.
Reports == UNION {[1..n -> StatsRecords] : n \in 0..MaxReportLen}

\* The reports delivered where only the lifetime of the report is followed.
ShortReports == {r \in Reports : Len(r) <= 1}

\* The stats_type strings a caller passes.
StatsTypes == {"DataChannelStats", "AudioSenderStats", "AudioReceiverStats",
               "VideoSenderStats", "VideoReceiverStats", "TransportStats",
               "Unknown", "transportstats"}

SenderTypes == {"AudioSenderStats", "VideoSenderStats"}
ReceiverTypes == {"AudioReceiverStats", "VideoReceiverStats"}

\* The media kind a sender or receiver stats_type compares kind with.
MediaKind(stats_type) ==
  IF stats_type \in {"AudioSenderStats", "AudioReceiverStats"}
    THEN "audio" ELSE "video"

\* RTCStatsMember::is_defined
is_defined(member) == member # UNDEFINED

\* RTCStatsMember::operator* where assertions are compiled out: the value,
\* which is the default-constructed one for an undefined member.
Deref(member) == IF is_defined(member) THEN member ELSE ""

\* T{}: a value-initialised mrs*Stats structure. One shape stands for the
\* four structures; a field a structure lacks stays zero.
ZeroStats ==
  [rtp_stats_timestamp_us |-> 0, packets |-> 0, bytes |-> 0, frames |-> 0,
   track_stats_timestamp_us |-> 0, track_identifier |-> "", level |-> 0]

\* std::find_if over the pending vector: the first index whose key is id,
\* 0 when there is none.
FindIndex(vec, id) ==
  IF \E i \in 1..Len(vec) : vec[i].key = id
    THEN CHOOSE i \in 1..Len(vec) :
           /\ vec[i].key = id
           /\ \A j \in 1..(i - 1) : vec[j].key # id
    ELSE 0

\* FindOrInsert where the search is skipped: every call appends.
FindOrInsert_always_insert(vec, id) ==
  [vec |-> Append(vec, [key |-> id, stats |-> ZeroStats]), at |-> Len(vec) + 1]

\* FindOrInsert: the vector after the call and the index of the slot returned.
FindOrInsert(vec, id) ==
  IF FindIndex(vec, id) # 0
    THEN [vec |-> vec, at |-> FindIndex(vec, id)]
    ELSE [vec |-> Append(vec, [key |-> id, stats |-> ZeroStats]),
          at |-> Len(vec) + 1]

(***************************************************************************)
(* mrsStatsReportGetObjects: the join by track id                          *)
(***************************************************************************)

\* The RTP record type a sender or receiver stats_type reads.
RtpType(stats_type) ==
  IF stats_type \in SenderTypes THEN "outbound-rtp" ELSE "inbound-rtp"

\* The condition under which an RTP record of the sender branches is
\* joined, without the test that its track id is defined.
SenderRtpQualifies_trackless(rec, stats_type) ==
  rec.kind = MediaKind(stats_type)

\* Lines 1155-1157 and 1222-1224.
SenderRtpQualifies(rec, stats_type) ==
  rec.kind = MediaKind(stats_type) /\ is_defined(rec.track_id)

\* Lines 1188 and 1255: the receiver branches do not test track_id.
ReceiverRtpQualifies(rec, stats_type) ==
  rec.kind = MediaKind(stats_type)

RtpQualifies(rec, stats_type) ==
  IF stats_type \in SenderTypes THEN SenderRtpQualifies(rec, stats_type)
  ELSE ReceiverRtpQualifies(rec, stats_type)

\* Lines 1164-1165, 1195-1196, 1232-1233, 1263-1264: a track record of the
\* media kind, local for the senders and remote for the receivers.
TrackQualifies(rec, stats_type) ==
  /\ rec.kind = MediaKind(stats_type)
  /\ rec.remote_source = (stats_type \in ReceiverTypes)

\* GetCommonValues, and frames_encoded / frames_decoded for video.
RtpValues(dest, rec, stats_type) ==
  [dest EXCEPT !.rtp_stats_timestamp_us = rec.timestamp_us,
               !.packets = rec.packets,
               !.bytes = rec.bytes,
               !.frames = IF MediaKind(stats_type) = "video"
                            THEN rec.frames ELSE @]

\* The assignments from a track record (level stands for audio_level, or
\* frames_sent / frames_received for video; it is defined in every record
\* of StatsRecords, so GetValueIfDefined yields the value).
TrackValues(dest, rec) ==
  [dest EXCEPT !.track_stats_timestamp_us = rec.timestamp_us,
               !.track_identifier = rec.track_identifier,
               !.level = rec.level]

\* One iteration of the loop over the report, for the four joined kinds.
JoinStep(pending, rec, stats_type) ==
  IF rec.type = RtpType(stats_type)
    THEN IF RtpQualifies(rec, stats_type)
           THEN LET f == FindOrInsert(pending, Deref(rec.track_id))
                IN  [f.vec EXCEPT ![f.at].stats =
                       RtpValues(@, rec, stats_type)]
           ELSE pending
  ELSE IF rec.type = "track"
    THEN IF TrackQualifies(rec, stats_type)
           THEN LET f == FindOrInsert(pending, rec.id)
                IN  [f.vec EXCEPT ![f.at].stats = TrackValues(@, rec)]
           ELSE pending
  ELSE pending

\* pending_stats after the first n records of the report.
RECURSIVE Join(_, _, _)
Join(recs, n, stats_type) ==
  IF n = 0 THEN <<>>
  ELSE JoinStep(Join(recs, n - 1, stats_type), recs[n], stats_type)

\* The records of one type, in report order (the one-to-one kinds).
RECURSIVE OfType(_, _, _)
OfType(recs, n, type) ==
  IF n = 0 THEN <<>>
  ELSE IF recs[n].type = type
    THEN Append(OfType(recs, n - 1, type),
                [key |-> recs[n].id,
                 stats |-> [ZeroStats EXCEPT
                              !.rtp_stats_timestamp_us = recs[n].timestamp_us,
                              !.packets = recs[n].packets,
                              !.bytes = recs[n].bytes]])
  ELSE OfType(recs, n - 1, type)

\* The chain of strcmp tests ending in a branch that takes every other
\* string for "TransportStats".
GetObjectsPending_else_transport(recs, stats_type) ==
  IF stats_type = "DataChannelStats"
    THEN OfType(recs, Len(recs), "data-channel")
  ELSE IF stats_type \in SenderTypes \cup ReceiverTypes
    THEN Join(recs, Len(recs), stats_type)
  ELSE OfType(recs, Len(recs), "transport")

\* The structures handed to the callback, keyed as in pending_stats.
GetObjectsPending(recs, stats_type) ==
  IF stats_type = "DataChannelStats"
    THEN OfType(recs, Len(recs), "data-channel")
  ELSE IF stats_type \in SenderTypes \cup ReceiverTypes
    THEN Join(recs, Len(recs), stats_type)
  ELSE IF stats_type = "TransportStats"
    THEN OfType(recs, Len(recs), "transport")
  ELSE <<>>

\* A receiver branch dereferences the undefined track_id of an inbound
\* record: a build with assertions aborts there.
DerefsUndefined(recs, stats_type) ==
  /\ stats_type \in ReceiverTypes
  /\ \E i \in 1..Len(recs) :
       /\ recs[i].type = "inbound-rtp"
       /\ ReceiverRtpQualifies(recs[i], stats_type)
       /\ ~is_defined(recs[i].track_id)

\* The callback invocations of one call: the second of each pair, in order.
Emitted(pending) == [i \in 1..Len(pending) |-> pending[i].stats]

NoStatsCall == [handle |-> NULL, stats_type |-> NONE, pending |-> <<>>,
                emitted |-> <<>>, ret |-> NONE]

NoReport == [status |-> NONE, recs |-> <<>>, refs |-> 0, engine |-> FALSE,
             caller |-> FALSE]

\* Report handles a caller can pass: null, or the one it was given.
ReportHandles == IF report.caller THEN {NULL, HND} ELSE {NULL}

\* Lines 1126-1291. aborts: the build asserts on the undefined dereference.
mrsStatsReportGetObjects(report_handle, stats_type, aborts) ==
  /\ report_handle \in ReportHandles
  /\ IF report_handle = NULL
       THEN /\ ~aborts
            /\ statsCall' = [handle |-> NULL, stats_type |-> stats_type,
                             pending |-> <<>>, emitted |-> <<>>,
                             ret |-> kInvalidNativeHandle]
       ELSE IF aborts
         THEN /\ DerefsUndefined(report.recs, stats_type)
              /\ statsCall' = [handle |-> HND, stats_type |-> stats_type,
                               pending |-> <<>>, emitted |-> <<>>,
                               ret |-> "abort"]
         ELSE LET p == GetObjectsPending(report.recs, stats_type)
              IN  statsCall' = [handle |-> HND, stats_type |-> stats_type,
                                pending |-> p, emitted |-> Emitted(p),
                                ret |-> kSuccess]
  /\ UNCHANGED <<last, trackVars, cbVars, statsPending, report, devVars, dcVars,
                 session, sdp, bitrate, mem, enumCall>>

(***************************************************************************)
(* Statistics reports: lifetime                                            *)
(***************************************************************************)

\* Lines 1076-1103: the collector is handed to PeerConnection::GetStats.
mrsPeerConnectionGetSimpleStats(peer) ==
  LET rec(code, eng) == Returned("GetSimpleStats", peer, NONE, HND, FALSE,
                                 STALE, code, eng)
  IN
  /\ CanCall
  /\ IF peer # NULL
       THEN /\ statsPending < MaxPending
            /\ statsPending' = statsPending + 1
            /\ last' = rec(kSuccess, TRUE)
       ELSE /\ last' = rec(kInvalidNativeHandle, FALSE)
            /\ UNCHANGED statsPending
  /\ UNCHANGED <<trackVars, cbVars, report, statsCall, devVars, dcVars, session,
                 sdp, bitrate, mem, enumCall>>

\* Collector::OnStatsDelivered without report->AddRef().
OnStatsDeliveredRefs_no_addref(refs) == refs

\* Collector::OnStatsDelivered, line 1092: the reference count after the
\* reference added for the handle passed to the callback.
OnStatsDeliveredRefs(refs) == refs + 1

\* The engine thread delivers the report of a pending request: it holds the
\* report through its own scoped_refptr while OnStatsDelivered runs, and the
\* callback receives report.get().
OnStatsDelivered(recs) ==
  /\ statsPending > 0
  /\ report.status # "live"
  /\ statsPending' = statsPending - 1
  /\ report' = [status |-> "live", recs |-> recs,
                refs |-> OnStatsDeliveredRefs(1), engine |-> TRUE,
                caller |-> TRUE]
  /\ statsCall' = NoStatsCall
  /\ UNCHANGED <<last, trackVars, cbVars, devVars, dcVars, session, sdp, bitrate, mem, enumCall>>

\* RTCStatsReport::Release: the report is deleted when the count reaches 0.
ReportRelease(rep) ==
  IF rep.refs <= 1
    THEN [rep EXCEPT !.refs = 0, !.status = "freed"]
    ELSE [rep EXCEPT !.refs = @ - 1]

\* The engine drops the scoped_refptr it delivered the report through.
EngineReleaseReport ==
  /\ report.engine
  /\ report' = ReportRelease([report EXCEPT !.engine = FALSE])
  /\ UNCHANGED <<last, trackVars, cbVars, statsPending, statsCall, devVars,
                 dcVars, session, sdp, bitrate, mem, enumCall>>

\* Lines 1293-1300.
mrsStatsReportRemoveRef(stats_report) ==
  /\ stats_report \in ReportHandles
  /\ IF stats_report # NULL
       THEN report' = ReportRelease([report EXCEPT !.caller = FALSE])
       ELSE UNCHANGED report
  /\ statsCall' = [NoStatsCall EXCEPT
                     !.stats_type = "RemoveRef",
                     !.handle = stats_report,
                     !.ret = IF stats_report # NULL THEN kSuccess
                             ELSE kInvalidNativeHandle]
  /\ UNCHANGED <<last, trackVars, cbVars, statsPending, devVars, dcVars, session,
                 sdp, bitrate, mem, enumCall>>

(***************************************************************************)
(* Callback registration and delivery                                      *)
(***************************************************************************)

\* The holder of a slot's mutex: an engine thread delivering, or nobody.
ENGINE == "engine"
FREE == "free"

\* The mrsPeerConnectionRegister*Callback functions; the name is the part
\* between Register and Callback.
AllRegisterFunctions ==
  {"Connected", "LocalSdpReadytoSend", "IceCandidateReadytoSend",
   "IceStateChanged", "RenegotiationNeeded", "TrackAdded", "TrackRemoved",
   "DataChannelAdded", "DataChannelRemoved", "I420ARemoteVideoFrame",
   "Argb32RemoteVideoFrame", "LocalAudioFrame", "RemoteAudioFrame"}

\* The functions the model calls, and so the event kinds it delivers.
RegisterFunctions ==
  {"Connected", "I420ARemoteVideoFrame", "Argb32RemoteVideoFrame"}

\* The function pointers and user-data values of the caller. Each function
\* pointer is registered with the user data that belongs to it.
CallbackArgs == {<<"A", "udA">>, <<"B", "udB">>, <<NULL, "udA">>}

\* Callback<>{}: an empty slot.
EmptyCallback == [callback_ |-> NULL, user_data_ |-> NULL]

NoRegCall == [fn |-> NONE, cb |-> EmptyCallback]

\* A delivery: the slot's content when the event was delivered, whether the
\* function pointer was called, the pair of the last completed registration
\* of that kind, and the register function that was in progress meanwhile.
NoDelivery == [kind |-> NONE, cb |-> EmptyCallback, invoked |-> FALSE,
               expected |-> EmptyCallback, during |-> NONE]

\* Callback::operator(): the function pointer is called when it is non-null.
Invokes(cb) == cb.callback_ # NULL

\* The Callback built with the user data of the other caller-side object.
MakeCallback_fixed_user_data(callback, user_data) ==
  [callback_ |-> callback, user_data_ |-> "udA"]

\* Callback<...>{callback, user_data}
MakeCallback(callback, user_data) ==
  [callback_ |-> callback, user_data_ |-> user_data]

\* Both remote-video-frame functions storing into the I420A slot.
SlotOf_one_video_slot(fn) ==
  IF fn = "Argb32RemoteVideoFrame" THEN "I420ARemoteVideoFrame" ELSE fn

\* The slot of the PeerConnection each function stores into: the
\* Register<X>Callback method of its own kind; the two remote-video-frame
\* functions call overloads of RegisterRemoteVideoFrameCallback that are
\* told apart by the callback type.
SlotOf(fn) == fn

\* The facade function is entered with a non-null session handle and has
\* built the Callback; a null session handle makes the call a no-op.
RegisterCallbackCall(peer, fn, callback, user_data) ==
  /\ regCall = NoRegCall
  /\ <<callback, user_data>> \in CallbackArgs
  /\ IF peer # NULL
       THEN regCall' = [fn |-> fn, cb |-> MakeCallback(callback, user_data)]
       ELSE UNCHANGED regCall
  /\ UNCHANGED <<slots, cbMutex, dlvCall, delivered, lastReg, last,
                 trackVars, statsVars, devVars, dcVars, session, sdp,
                 bitrate, mem, enumCall>>

\* PeerConnection::Register<X>Callback: the slot is assigned under its
\* mutex, and the facade function returns.
RegisterCallbackStore ==
  /\ regCall # NoRegCall
  /\ cbMutex[SlotOf(regCall.fn)] = FREE
  /\ slots' = [slots EXCEPT ![SlotOf(regCall.fn)] = regCall.cb]
  /\ lastReg' = [lastReg EXCEPT ![regCall.fn] = regCall.cb]
  /\ regCall' = NoRegCall
  /\ UNCHANGED <<cbMutex, dlvCall, delivered, last, trackVars, statsVars, devVars,
                 dcVars, session, sdp, bitrate, mem, enumCall>>

\* An engine thread has an event of the kind to deliver: it takes the
\* slot's mutex.
DeliverBegin(kind) ==
  /\ dlvCall = NONE
  /\ cbMutex[kind] = FREE
  /\ cbMutex' = [cbMutex EXCEPT ![kind] = ENGINE]
  /\ dlvCall' = kind
  /\ UNCHANGED <<slots, regCall, delivered, lastReg, last,
                 trackVars, statsVars, devVars, dcVars, session, sdp,
                 bitrate, mem, enumCall>>

\* Callback::operator(): the function pointer is called with the stored
\* user data when it is non-null; the mutex is released.
DeliverInvoke ==
  /\ dlvCall # NONE
  /\ delivered' = [kind |-> dlvCall, cb |-> slots[dlvCall],
                   invoked |-> Invokes(slots[dlvCall]),
                   expected |-> lastReg[dlvCall], during |-> regCall.fn]
  /\ cbMutex' = [cbMutex EXCEPT ![dlvCall] = FREE]
  /\ dlvCall' = NONE
  /\ UNCHANGED <<slots, regCall, lastReg, last, trackVars,
                 statsVars, devVars, dcVars, session, sdp, bitrate, mem, enumCall>>

(***************************************************************************)
(* BuiltinVideoCaptureDeviceTrackSource::Create: choosing the device       *)
(***************************************************************************)

\* webrtc::VideoCaptureCapability as its default constructor leaves it.
DefaultCapability == [width |-> 0, height |-> 0, maxFPS |-> 0]

\* A capability a device lists. readable: DeviceInfo::GetCapability returns
\* 0 for it and fills the capability in.
Capability(width, height, maxFPS, readable) ==
  [width |-> width, height |-> height, maxFPS |-> maxFPS,
   readable |-> readable]

\* A capture device. named: DeviceInfo::GetDeviceName succeeds for it;
\* opens: VideoCaptureFactory::Create returns a module for it; caps: its
\* capabilities, caps[1] being the one at index 0.
CaptureDevice(id, named, opens, caps) ==
  [id |-> id, named |-> named, opens |-> opens, caps |-> caps]

CaptureDevices ==
  {CaptureDevice("camA", TRUE, TRUE,
                 <<Capability(320, 240, 30, TRUE),
                   Capability(640, 480, 30, TRUE),
                   Capability(640, 480, 60, TRUE)>>),
   CaptureDevice("camB", TRUE, TRUE, <<Capability(640, 480, 30, TRUE)>>),
   CaptureDevice("camC", TRUE, FALSE, <<Capability(640, 480, 30, TRUE)>>),
   CaptureDevice("camD", TRUE, TRUE, <<Capability(320, 240, 30, TRUE)>>),
   CaptureDevice("camE", TRUE, TRUE, <<>>),
   CaptureDevice("camF", FALSE, TRUE, <<Capability(640, 480, 30, TRUE)>>),
   CaptureDevice("camG", TRUE, TRUE,
                 <<Capability(640, 480, 30, FALSE),
                   Capability(640, 480, 60, TRUE)>>)}

\* How many capture devices the machine has at most.
MaxDevices == 2

\* The device lists DeviceInfo can enumerate: unique ids are unique.
DeviceLists ==
  {l \in UNION {[1..n -> CaptureDevices] : n \in 0..MaxDevices} :
     \A i, j \in 1..Len(l) : i # j => l[i].id # l[j].id}

\* VideoDeviceConfiguration. framerate_x10 is the framerate (a double) in
\* tenths of a frame per second.
VideoDeviceConfiguration(video_device_id, width, height, framerate_x10) ==
  [video_device_id |-> video_device_id, width |-> width, height |-> height,
   framerate_x10 |-> framerate_x10]

\* The device ids and the width / height / framerate filters a caller passes.
Configs ==
  {VideoDeviceConfiguration(id, f[1], f[2], f[3]) :
     id \in {"", "camB", "camX"},
     f \in {<<0, 0, 0>>, <<640, 0, 0>>, <<0, 240, 0>>, <<640, 480, 300>>,
            <<0, 0, 296>>, <<0, 0, 305>>, <<1280, 0, 0>>}}

\* static_cast<int>(config.framerate + 0.5)
config_fps(cfg) == (cfg.framerate_x10 + 5) \div 10

\* Lines 97: a capability was requested.
HasFilter(cfg) == cfg.width > 0 \/ cfg.height > 0 \/ cfg.framerate_x10 > 0

\* Lines 105-115: none of the three tests of the filter rejects capability.
Matches(cfg, capability) ==
  /\ ~(cfg.width > 0 /\ capability.width # cfg.width)
  /\ ~(cfg.height > 0 /\ capability.height # cfg.height)
  /\ ~(cfg.framerate_x10 > 0 /\ capability.maxFPS # config_fps(cfg))

\* Lines 78-92: the ids of the devices whose name can be read, in order.
RECURSIVE ListDevices(_, _)
ListDevices(devs, n) ==
  IF n = 0 THEN <<>>
  ELSE IF devs[n].named
    THEN Append(ListDevices(devs, n - 1), devs[n].id)
  ELSE ListDevices(devs, n - 1)

\* Lines 58-76: the device with the id the caller asked for, if there is one.
FindDevice(devs, id) ==
  IF \E i \in 1..Len(devs) : devs[i].named /\ devs[i].id = id
    THEN <<id>> ELSE <<>>

\* filtered_device_ids
FilteredDeviceIds(cfg, devs) ==
  IF ~IsStringNullOrEmpty(cfg.video_device_id)
    THEN FindDevice(devs, cfg.video_device_id)
    ELSE ListDevices(devs, Len(devs))

\* The device DeviceInfo and VideoCaptureFactory know under an id.
DeviceOf(devs, id) == devs[CHOOSE i \in 1..Len(devs) : devs[i].id = id]

\* The locals vcm and capability before the loops, the devices opened and
\* the devices whose capture module is alive.
NoSelection == [vcm |-> NULL, capability |-> DefaultCapability,
                opened |-> <<>>, live |-> {}]

\* vcm = webrtc::VideoCaptureFactory::Create(device id): the assignment
\* drops the reference to the module vcm held, which dies with it.
OpenDevice(sel, dev) ==
  [sel EXCEPT !.vcm = IF dev.opens THEN dev.id ELSE NULL,
              !.opened = IF dev.opens THEN Append(@, dev.id) ELSE @,
              !.live = (@ \ {sel.vcm}) \cup
                        (IF dev.opens THEN {dev.id} ELSE {})]

\* info->GetCapability(id, icap - 1, capability)
ReadCapability(sel, dev, icap) ==
  IF icap <= Len(dev.caps) /\ dev.caps[icap].readable
    THEN [sel EXCEPT !.capability =
            [width |-> dev.caps[icap].width,
             height |-> dev.caps[icap].height,
             maxFPS |-> dev.caps[icap].maxFPS]]
    ELSE sel

\* Lines 101-123: the loop over the capabilities of one device, from icap
\* on; it ends at the first matching capability whose device opens.
RECURSIVE CapabilityLoop(_, _, _, _)
CapabilityLoop(sel, cfg, dev, icap) ==
  IF icap > Len(dev.caps) THEN sel
  ELSE IF ~dev.caps[icap].readable
    THEN CapabilityLoop(sel, cfg, dev, icap + 1)
  ELSE LET read == ReadCapability(sel, dev, icap) IN
       IF ~Matches(cfg, read.capability)
         THEN CapabilityLoop(read, cfg, dev, icap + 1)
       ELSE LET tried == OpenDevice(read, dev) IN
            IF tried.vcm # NULL THEN tried
            ELSE CapabilityLoop(tried, cfg, dev, icap + 1)

\* Lines 98-124: the loop over filtered_device_ids from position k on. The
\* break of the capability loop does not leave this loop.
RECURSIVE DeviceLoop(_, _, _, _, _)
DeviceLoop(sel, cfg, devs, ids, k) ==
  IF k > Len(ids) THEN sel
  ELSE DeviceLoop(CapabilityLoop(sel, cfg, DeviceOf(devs, ids[k]), 1),
                  cfg, devs, ids, k + 1)

\* The loop of lines 128-137 without its break.
RECURSIVE OpenFirstAvailable_no_break(_, _, _, _)
OpenFirstAvailable_no_break(sel, devs, ids, k) ==
  IF k > Len(ids) THEN sel
  ELSE LET dev == DeviceOf(devs, ids[k])
           tried == OpenDevice(sel, dev)
       IN  IF tried.vcm = NULL
             THEN OpenFirstAvailable_no_break(tried, devs, ids, k + 1)
             ELSE OpenFirstAvailable_no_break(ReadCapability(tried, dev, 1),
                                              devs, ids, k + 1)

\* Lines 125-138: no capability was requested; the first device that opens
\* is taken with its capability at index 0.
RECURSIVE OpenFirstAvailable(_, _, _, _)
OpenFirstAvailable(sel, devs, ids, k) ==
  IF k > Len(ids) THEN sel
  ELSE LET dev == DeviceOf(devs, ids[k])
           tried == OpenDevice(sel, dev)
       IN  IF tried.vcm = NULL
             THEN OpenFirstAvailable(tried, devs, ids, k + 1)
             ELSE ReadCapability(tried, dev, 1)

\* What a call of Create did. info: CreateDeviceInfo gave an object;
\* device: the device of the module the source wraps; capability: the one
\* passed to StartCapture when startCapture; opened: the devices opened.
\* source: the track source object exists; vcm_: its module; live: the
\* devices whose module is alive; registered: those whose module delivers
\* frames to the source; capturing: those that StartCapture started.
NoCapture == [res |-> NONE, info |-> FALSE, device |-> NULL,
              capability |-> DefaultCapability, startCapture |-> FALSE,
              opened |-> <<>>, source |-> FALSE, vcm_ |-> NULL, live |-> {},
              registered |-> {}, capturing |-> {}]

\* Lines 180-184: the constructor takes the module and registers itself.
NewSource(c, vcm) ==
  [c EXCEPT !.source = TRUE, !.vcm_ = vcm, !.registered = @ \cup {vcm}]

\* Lines 186-193. startOk: StartCapture returns 0.
Initialize(c, startOk) ==
  IF ~startOk THEN [Destroy(c) EXCEPT !.res = kUnknownError]
  ELSE [c EXCEPT !.capturing = @ \cup {c.vcm_}, !.res = kSuccess]

\* Lines 43-162. infoOk: CreateDeviceInfo returned an object; startOk:
\* StartCapture returns 0.
Create(cfg, devs, infoOk, startOk) ==
  IF ~infoOk THEN [NoCapture EXCEPT !.res = kUnknownError]
  ELSE LET ids == FilteredDeviceIds(cfg, devs) IN
    IF ids = <<>> THEN [NoCapture EXCEPT !.res = kNotFound, !.info = TRUE]
    ELSE LET sel == IF HasFilter(cfg)
                      THEN DeviceLoop(NoSelection, cfg, devs, ids, 1)
                      ELSE OpenFirstAvailable(NoSelection, devs, ids, 1)
             found == [NoCapture EXCEPT !.info = TRUE, !.device = sel.vcm,
                                        !.capability = sel.capability,
                                        !.opened = sel.opened,
                                        !.live = sel.live]
         IN  IF sel.vcm # NULL
               THEN LET init == Initialize(
                                  [NewSource(found, sel.vcm)
                                     EXCEPT !.startCapture = TRUE], startOk)
                    IN  IF init.res # kSuccess THEN ReleaseSource(init)
                        ELSE init
               ELSE [found EXCEPT !.res = kInvalidOperation]

\* The functor of lines 693-697 runs Create on the machine's devices.
SignalingCreate(infoOk, startOk) ==
  LET out == Create(config, devices, infoOk, startOk) IN
  /\ EndCreate(out.res)
  /\ capture' = out
  /\ UNCHANGED <<config, devices, dcVars, session, sdp, bitrate, mem, enumCall>>

(***************************************************************************)
(* mrsPeerConnectionAddDataChannel: attaching the callbacks                *)
(***************************************************************************)

\* The callback kinds of a data channel, which lines 836-841 set.
DataChannelKinds == {"message", "buffering", "state"}

\* The kinds mrsPeerConnectionAddDataChannel attaches, short of the state
\* callback.
AttachOrder_no_state == <<"message", "buffering">>

AttachOrder == <<"message", "buffering", "state">>

\* The mrsDataChannelCallbacks values a caller passes.
DataChannelCallbacks ==
  [DataChannelKinds -> {MakeCallback(a[1], a[2]) : a \in CallbackArgs}]

NoCallbacks == [k \in DataChannelKinds |-> EmptyCallback]

\* No call yet. pos: where the call is; todo: the kinds still to attach;
\* callbacks: the ones carried in the call; engineRes: what
\* PeerConnection::AddDataChannel returned; exists: the engine has the
\* channel; slots: the channel's callback slots; out: the caller's output
\* variable; ret: the returned code.
NoChannel == [pos |-> "idle", todo |-> <<>>, callbacks |-> NoCallbacks,
              engineRes |-> NONE, exists |-> FALSE, slots |-> NoCallbacks,
              out |-> STALE, ret |-> NONE]

NoChannelEvent == [kind |-> NONE, cb |-> EmptyCallback, invoked |-> FALSE,
                   handed |-> FALSE]

\* Lines 819-835 and 845: a call with valid arguments up to the return of
\* PeerConnection::AddDataChannel, whose result is res.
AddDataChannelCall(callbacks, res) ==
  /\ dc.pos = "idle"
  /\ dc' = IF res = kSuccess
             THEN [dc EXCEPT !.pos = "attach", !.todo = AttachOrder,
                             !.callbacks = callbacks, !.engineRes = res,
                             !.exists = TRUE, !.out = NULL]
             ELSE [dc EXCEPT !.pos = "returned", !.callbacks = callbacks,
                             !.engineRes = res, !.out = NULL, !.ret = res]
  /\ UNCHANGED <<dcDelivered, last, trackVars, cbVars, statsVars, devVars,
                 session, sdp, bitrate, mem, enumCall>>

\* Lines 836-841: the next of SetMessageCallback, SetBufferingCallback and
\* SetStateCallback.
AddDataChannelAttach ==
  /\ dc.pos = "attach"
  /\ dc.todo # <<>>
  /\ dc' = [dc EXCEPT !.slots[Head(dc.todo)] = dc.callbacks[Head(dc.todo)],
                      !.todo = Tail(dc.todo)]
  /\ UNCHANGED <<dcDelivered, last, trackVars, cbVars, statsVars, devVars,
                 session, sdp, bitrate, mem, enumCall>>

\* Lines 842-843: the handle is written and the call returns success.
AddDataChannelReturn ==
  /\ dc.pos = "attach"
  /\ dc.todo = <<>>
  /\ dc' = [dc EXCEPT !.pos = "returned", !.out = HND, !.ret = kSuccess]
  /\ UNCHANGED <<dcDelivered, last, trackVars, cbVars, statsVars, devVars,
                 session, sdp, bitrate, mem, enumCall>>

\* An engine thread delivers an event of the channel to the slot of its
\* kind. handed: the caller had received the channel's handle by then.
DataChannelDeliver(kind) ==
  /\ dc.exists
  /\ dcDelivered' = [kind |-> kind, cb |-> dc.slots[kind],
                     invoked |-> Invokes(dc.slots[kind]),
                     handed |-> dc.pos = "returned"]
  /\ UNCHANGED <<dc, last, trackVars, cbVars, statsVars, devVars, session, sdp,
                 bitrate, mem, enumCall>>

(***************************************************************************)
(* mrsSdpForceCodecs: the in/out buffer size                               *)
(***************************************************************************)

MaxSdpLen == 3

MaxSdpCalls == 2

\* The characters of a filtered SDP message, the terminating null, and the
\* bytes the caller's buffer holds before the call.
SdpChars == {"a", "m"}

NUL == "NUL"

FILL == "?"

\* What SdpForceCodecs returns (lines 1014-1016).
SdpMessages == UNION {[1..n -> SdpChars] : n \in 0..MaxSdpLen}

\* The capacities a caller passes in *buffer_size.
Capacities == 0..(MaxSdpLen + 2)

\* A caller's buffer of n bytes.
Allocate(n) == [i \in 1..n |-> FILL]

\* Line 1019 without the byte of the terminating null.
RequiredSize_no_terminator(out_message) == Len(out_message)

\* Line 1019: size + 1.
RequiredSize(out_message) == Len(out_message) + 1

\* Lines 1023-1024: memcpy of the message and the terminating null.
CopyOut(buffer, out_message) ==
  [i \in 1..Len(buffer) |->
     IF i <= Len(out_message) THEN out_message[i]
     ELSE IF i = Len(out_message) + 1 THEN NUL
     ELSE buffer[i]]

\* No call yet. out_message: the filtered SDP; buffer, buffer_size: the
\* caller's buffer and *buffer_size; capacity, before: *buffer_size and the
\* buffer as the last call found them; retry: the caller has allocated the
\* reported size since the last call.
SdpArgs(out_message, n) ==
  [out_message |-> out_message, buffer |-> Allocate(n), buffer_size |-> n,
   capacity |-> 0, before |-> <<>>, ret |-> NONE, calls |-> 0,
   retry |-> FALSE]

\* Lines 1017-1025. The caller passes a buffer of at least *buffer_size
\* bytes.
mrsSdpForceCodecs ==
  LET capacity == sdp.buffer_size
      fits == capacity >= RequiredSize(sdp.out_message)
  IN
  /\ sdp.calls < MaxSdpCalls
  /\ sdp.buffer_size <= Len(sdp.buffer)
  /\ sdp' = [sdp EXCEPT
               !.buffer_size = RequiredSize(sdp.out_message),
               !.capacity = capacity,
               !.before = sdp.buffer,
               !.buffer = IF fits THEN CopyOut(@, sdp.out_message) ELSE @,
               !.ret = IF fits THEN kSuccess ELSE kInvalidParameter,
               !.calls = @ + 1]
  /\ UNCHANGED <<last, trackVars, cbVars, statsVars, devVars, dcVars,
                 session, bitrate, mem, enumCall>>

\* The caller allocates a buffer of the reported size for a second call.
SdpRetry ==
  /\ sdp.ret = kInvalidParameter
  /\ sdp' = [sdp EXCEPT !.buffer = Allocate(sdp.buffer_size),
                        !.ret = NONE, !.retry = TRUE]
  /\ UNCHANGED <<last, trackVars, cbVars, statsVars, devVars, dcVars,
                 session, bitrate, mem, enumCall>>

(***************************************************************************)
(* mrsMemCpyStride                                                         *)
(***************************************************************************)

MaxElemSize == 2

MaxStride == 3

MaxElemCount == 3

\* The source buffer of n bytes: the byte at offset k holds k + 1, so every
\* byte tells where it came from.
SourceBytes(n) == [k \in 1..n |-> k]

\* The destination buffer of n bytes before the call.
BLANK == 0

DestinationBytes(n) == [k \in 1..n |-> BLANK]

\* memcpy(dst + dOff, src + sOff, n).
MemCpy(dst, dOff, src, sOff, n) ==
  [k \in 1..Len(dst) |->
     IF k > dOff /\ k <= dOff + n THEN src[sOff + (k - dOff)] ELSE dst[k]]

\* Line 1049 with one element less.
TotalSize_one_short(elem_size, elem_count) == elem_size * (elem_count - 1)

\* Line 1049: total_size.
TotalSize(elem_size, elem_count) == elem_size * elem_count

\* Lines 1053-1057: the loop from row i on, dst and src advanced to the
\* offsets dOff and sOff.
RECURSIVE RowByRow(_, _, _, _, _, _, _, _, _)
RowByRow(dst, dOff, dst_stride, src, sOff, src_stride, elem_size, i, elem_count) ==
  IF i < elem_count
    THEN RowByRow(MemCpy(dst, dOff, src, sOff, elem_size), dOff + dst_stride,
                  dst_stride, src, sOff + src_stride, src_stride, elem_size,
                  i + 1, elem_count)
    ELSE dst

\* Lines 1047-1058: the destination buffer after the call.
MemCpyStride(dst, dst_stride, src, src_stride, elem_size, elem_count) ==
  IF dst_stride = elem_size /\ src_stride = elem_size
    THEN MemCpy(dst, 0, src, 0, TotalSize(elem_size, elem_count))
    ELSE RowByRow(dst, 0, dst_stride, src, 0, src_stride, elem_size, 0,
                  elem_count)

\* The arguments of a call that passes the checks of lines 1043-1046, with
\* buffers of elem_count rows and one more byte of destination behind them.
MemArgs(dst_stride, src_stride, elem_size, elem_count) ==
  [dst |-> DestinationBytes(elem_count * dst_stride + 1),
   src |-> SourceBytes(elem_count * src_stride),
   dst_stride |-> dst_stride, src_stride |-> src_stride,
   elem_size |-> elem_size, elem_count |-> elem_count, done |-> FALSE]

\* Lines 1037-1059.
mrsMemCpyStride ==
  /\ ~mem.done
  /\ mem' = [mem EXCEPT
               !.dst = MemCpyStride(mem.dst, mem.dst_stride, mem.src,
                                    mem.src_stride, mem.elem_size,
                                    mem.elem_count),
               !.done = TRUE]
  /\ UNCHANGED <<last, trackVars, cbVars, statsVars, devVars, dcVars,
                 session, sdp, bitrate, enumCall>>

(***************************************************************************)
(* mrsEnumVideoCaptureDevicesAsync, mrsEnumVideoCaptureFormatsAsync        *)
(***************************************************************************)

\* The device ids a caller asks the formats of.
EnumDeviceIds == {NULL, "", "camA", "camG", "camX"}

\* The callbacks a caller passes: null, or a function.
EnumCallbacks == {NULL, "onEnum"}

CompletedCallbacks == {NULL, "onCompleted"}

\* One callback invocation: cb is "enum" or "completed", i the index of the
\* device or capability reported (0 for completed).
CallbackEvent(cb, i) == [cb |-> cb, i |-> i]

\* No call yet. events: the callback invocations of the call, in order.
NoEnumCall == [op |-> NONE, device_id |-> NULL, enumCallback |-> NULL,
               completedCallback |-> NULL, info |-> FALSE, events |-> <<>>,
               ret |-> NONE]

\* if (completedCallback) (*completedCallback)(...)
Completed(events, completedCallback) ==
  IF completedCallback # NULL THEN Append(events, CallbackEvent("completed", 0))
  ELSE events

\* Lines 312-320: the enum callback for every device whose name can be read.
RECURSIVE EnumDevices(_, _)
EnumDevices(devs, n) ==
  IF n = 0 THEN <<>>
  ELSE IF devs[n].named
    THEN Append(EnumDevices(devs, n - 1), CallbackEvent("enum", n))
  ELSE EnumDevices(devs, n - 1)

\* Lines 471-484: the enum callback for every capability of the device that
\* can be read and whose video type has a FOURCC (unknown: the indices of
\* those that have none).
RECURSIVE EnumFormats(_, _, _)
EnumFormats(caps, n, unknown) ==
  IF n = 0 THEN <<>>
  ELSE IF caps[n].readable /\ n \notin unknown
    THEN Append(EnumFormats(caps, n - 1, unknown), CallbackEvent("enum", n))
  ELSE EnumFormats(caps, n - 1, unknown)

\* Lines 458-487: the first device with a readable name and the id asked
\* for, <<>> when there is none.
FormatsOf(devs, device_id, unknown) ==
  LET hits == {i \in 1..Len(devs) : devs[i].named /\ devs[i].id = device_id}
  IN  IF hits = {} THEN <<>>
      ELSE LET first == CHOOSE i \in hits : \A j \in hits : i <= j
           IN  EnumFormats(devs[first].caps, Len(devs[first].caps), unknown)

\* Lines 269-326. infoOk: CreateDeviceInfo returned an object.
mrsEnumVideoCaptureDevicesAsync(enumCallback, completedCallback, infoOk) ==
  LET call(events, ret) ==
        [op |-> "EnumVideoCaptureDevicesAsync", device_id |-> NULL,
         enumCallback |-> enumCallback,
         completedCallback |-> completedCallback, info |-> infoOk,
         events |-> events, ret |-> ret]
  IN
  /\ enumCall' =
       IF enumCallback = NULL THEN call(<<>>, kInvalidParameter)
       ELSE IF ~infoOk
         THEN call(Completed(<<>>, completedCallback), kUnknownError)
       ELSE call(Completed(EnumDevices(devices, Len(devices)),
                           completedCallback), kSuccess)
  /\ UNCHANGED <<last, trackVars, cbVars, statsVars, devVars, dcVars,
                 session, sdp, bitrate, mem>>

\* Lines 328-341 and 452-498. Without a DeviceInfo object the function
\* returns kUnknownError at once (lines 454-456).
mrsEnumVideoCaptureFormatsAsync(device_id, enumCallback, completedCallback, infoOk, unknown) ==
  LET call(events, ret) ==
        [op |-> "EnumVideoCaptureFormatsAsync", device_id |-> device_id,
         enumCallback |-> enumCallback,
         completedCallback |-> completedCallback, info |-> infoOk,
         events |-> events, ret |-> ret]
  IN
  /\ enumCall' =
       IF IsStringNullOrEmpty(device_id) THEN call(<<>>, kInvalidParameter)
       ELSE IF enumCallback = NULL THEN call(<<>>, kInvalidParameter)
       ELSE IF ~infoOk THEN call(<<>>, kUnknownError)
       ELSE call(Completed(FormatsOf(devices, device_id, unknown),
                           completedCallback), kSuccess)
  /\ UNCHANGED <<last, trackVars, cbVars, statsVars, devVars, dcVars,
                 session, sdp, bitrate, mem>>

(***************************************************************************)
(* Specifications                                                          *)
(***************************************************************************)

Handles == {NULL, HND}
PeerHandles == {NULL, PEER}

InitTracks ==
  /\ pc = [t \in Callers |-> "idle"]
  /\ frame = [t \in Callers |-> IdleFrame]
  /\ last = NoCall
  /\ factory \in BOOLEAN
  /\ sigQueue = <<>>
  /\ creating = {}
  /\ taskState = [t \in Callers |-> NONE]
  /\ submitted = <<>>
  /\ started = <<>>
  /\ tracks = [id \in TrackIds |-> NoTrack]
  /\ pool = TrackIds

InitCallbacks ==
  /\ slots = [k \in RegisterFunctions |-> EmptyCallback]
  /\ cbMutex = [k \in RegisterFunctions |-> FREE]
  /\ regCall = NoRegCall
  /\ dlvCall = NONE
  /\ delivered = NoDelivery
  /\ lastReg = [k \in RegisterFunctions |-> EmptyCallback]

InitStats ==
  /\ statsPending = 0
  /\ report = NoReport
  /\ statsCall = NoStatsCall

\* A machine whose devices play no part.
InitDevices ==
  /\ config = VideoDeviceConfiguration("", 0, 0, 0)
  /\ devices = <<>>
  /\ capture = NoCapture

\* No data channel was asked for.
InitDataChannel ==
  /\ dc = NoChannel
  /\ dcDelivered = NoChannelEvent

\* The session was created and not closed.
InitSession == session = OpenSession

\* mrsSdpForceCodecs was not called.
InitSdp == sdp = SdpArgs(<<>>, 0)

\* The engine has the settings it was constructed with.
InitBitrate == bitrate = DefaultBitrateSettings

\* mrsMemCpyStride was not called.
InitMem == mem = MemArgs(0, 0, 0, 0)

\* No enumeration was asked for.
InitEnum == enumCall = NoEnumCall

Init ==
  /\ InitTracks
  /\ InitCallbacks
  /\ InitStats
  /\ InitDevices
  /\ InitDataChannel
  /\ InitSession
  /\ InitSdp
  /\ InitBitrate
  /\ InitMem
  /\ InitEnum

\* The calls that add, remove and release local video tracks, made by the
\* threads of the set T with session handles from P, handles from H, track
\* names from N and output pointers that are non-null for the values of O;
\* and the steps of the signaling thread.
TrackNext(T, P, H, N, O) ==
  \/ \E t \in T, peer \in P, name \in N, outPtr \in O :
       mrsPeerConnectionAddLocalVideoTrack(t, peer, name, outPtr)
  \/ SignalingBeginCreate
  \/ \E res \in CreateResults : SignalingEndCreate(res)
  \/ \E t \in T, trackOk \in BOOLEAN, added \in TrackIds \cup {NONE} :
       AddLocalVideoTrackResume(t, trackOk, added)
  \/ \E t \in T : AddLocalVideoTrackReturn(t)
  \/ \E t \in T, peer \in P, name \in N, source \in H, outPtr \in O,
        trackOk \in BOOLEAN, added \in TrackIds \cup {NONE} :
       mrsPeerConnectionAddLocalVideoTrackFromExternalSource(
         t, peer, name, source, outPtr, trackOk, added)
  \/ \E peer \in P, track \in TrackIds \cup (H \ {HND}) :
       mrsPeerConnectionRemoveLocalVideoTrack(peer, track)
  \/ \E peer \in P, source \in H :
       mrsPeerConnectionRemoveLocalVideoTracksFromSource(peer, source)
  \/ \E peer \in P : mrsPeerConnectionClose(peer)
  \/ \E id \in TrackIds : LocalVideoTrackRemoveRef(id)

\* The calls that pass straight through to the engine.
PassThroughNext ==
  \/ \E interop \in Handles, outPtr \in BOOLEAN, res \in EngineResults :
       mrsPeerConnectionCreate(interop, outPtr, res)
  \/ \E peer \in PeerHandles, callbacks \in Handles, res \in EngineResults :
       mrsPeerConnectionRegisterInteropCallbacks(peer, callbacks, res)
  \/ \E peer \in PeerHandles, a, b, c \in BOOLEAN :
       mrsPeerConnectionAddLocalAudioTrack(peer, a, b, c)
  \/ \E peer \in PeerHandles, interop \in Handles, outPtr \in BOOLEAN,
        res \in EngineResults :
       mrsPeerConnectionAddDataChannel(peer, interop, outPtr, res)
  \/ \E peer \in PeerHandles, dataChannel \in Handles :
       mrsPeerConnectionRemoveDataChannel(peer, dataChannel)
  \/ \E peer \in PeerHandles :
       mrsPeerConnectionSetLocalAudioTrackEnabled(peer)
  \/ \E peer \in PeerHandles, ok \in BOOLEAN :
       mrsPeerConnectionAddIceCandidate(peer, ok)
  \/ \E peer \in PeerHandles, ok \in BOOLEAN :
       mrsPeerConnectionCreateOffer(peer, ok)
  \/ \E peer \in PeerHandles, ok \in BOOLEAN :
       mrsPeerConnectionCreateAnswer(peer, ok)
  \/ \E peer \in PeerHandles, ok \in BOOLEAN :
       mrsPeerConnectionSetRemoteDescription(peer, ok)
  \/ \E peer \in PeerHandles, bps \in FacadeBitrateArgs,
        res \in EngineResults :
       mrsPeerConnectionSetBitrate(peer, bps, bps, bps, res)
  \/ \E peer \in PeerHandles : mrsPeerConnectionGetSimpleStats(peer)

\* Two caller threads adding, removing and releasing tracks with valid
\* arguments.
Next == TrackNext(Callers, {PEER}, {HND}, {"cam"}, {TRUE})

Spec == Init /\ [][Next]_vars

\* One caller thread making every call of the session facade.
NextFacade ==
  \/ TrackNext({"t1"}, PeerHandles, Handles, Names, BOOLEAN)
  \/ PassThroughNext

\* The session has room for one local video track.
InitFacade ==
  /\ pc = [t \in Callers |-> "idle"]
  /\ frame = [t \in Callers |-> IdleFrame]
  /\ last = NoCall
  /\ factory \in BOOLEAN
  /\ sigQueue = <<>>
  /\ creating = {}
  /\ taskState = [t \in Callers |-> NONE]
  /\ submitted = <<>>
  /\ started = <<>>
  /\ tracks = [id \in TrackIds |-> NoTrack]
  /\ pool = {"trk1"}
  /\ InitCallbacks
  /\ InitStats
  /\ InitDevices
  /\ InitDataChannel
  /\ InitSession
  /\ InitSdp
  /\ InitBitrate
  /\ InitMem
  /\ InitEnum

SpecFacade == InitFacade /\ [][NextFacade]_vars

\* Callback registration against event delivery from an engine thread.
NextCallbacks ==
  \/ \E peer \in PeerHandles, fn \in RegisterFunctions,
        a \in CallbackArgs :
       RegisterCallbackCall(peer, fn, a[1], a[2])
  \/ RegisterCallbackStore
  \/ \E kind \in RegisterFunctions : DeliverBegin(kind)
  \/ DeliverInvoke

SpecCallbacks == Init /\ [][NextCallbacks]_vars

\* A statistics request, the delivered report and the calls made on it.
NextStats ==
  \/ mrsPeerConnectionGetSimpleStats(PEER)
  \/ \E recs \in ShortReports : OnStatsDelivered(recs)
  \/ EngineReleaseReport
  \/ \E h \in Handles, stats_type \in StatsTypes, aborts \in BOOLEAN :
       mrsStatsReportGetObjects(h, stats_type, aborts)
  \/ \E h \in Handles : mrsStatsReportRemoveRef(h)

SpecStats == Init /\ [][NextStats]_vars

\* A caller holds the handle of a delivered report, which the engine has
\* let go of, and reads it.
InitStatsJoin ==
  /\ InitTracks
  /\ InitCallbacks
  /\ statsPending = 0
  /\ \E recs \in Reports :
       report = [status |-> "live", recs |-> recs, refs |-> 1,
                 engine |-> FALSE, caller |-> TRUE]
  /\ statsCall = NoStatsCall
  /\ InitDevices
  /\ InitDataChannel
  /\ InitSession
  /\ InitSdp
  /\ InitBitrate
  /\ InitMem
  /\ InitEnum

\* mrsStatsReportGetObjects reads the report and changes nothing in it, so a
\* behaviour applies it once to the report drawn by InitStatsJoin.
NextStatsJoin ==
  /\ statsCall = NoStatsCall
  /\ \E h \in Handles, stats_type \in StatsTypes, aborts \in BOOLEAN :
       mrsStatsReportGetObjects(h, stats_type, aborts)

SpecStatsJoin == InitStatsJoin /\ [][NextStatsJoin]_vars

\* One caller adds a capture track on a machine with some devices.
InitCapture ==
  /\ pc = [t \in Callers |-> "idle"]
  /\ frame = [t \in Callers |-> IdleFrame]
  /\ last = NoCall
  /\ factory = TRUE
  /\ sigQueue = <<>>
  /\ creating = {}
  /\ taskState = [t \in Callers |-> NONE]
  /\ submitted = <<>>
  /\ started = <<>>
  /\ tracks = [id \in TrackIds |-> NoTrack]
  /\ pool = {"trk1"}
  /\ InitCallbacks
  /\ InitStats
  /\ config \in Configs
  /\ devices \in DeviceLists
  /\ capture = NoCapture
  /\ InitDataChannel
  /\ InitSession
  /\ InitSdp
  /\ InitBitrate
  /\ InitMem
  /\ InitEnum

NextCapture ==
  \/ mrsPeerConnectionAddLocalVideoTrack("t1", PEER, "cam", TRUE)
  \/ SignalingBeginCreate
  \/ \E infoOk, startOk \in BOOLEAN : SignalingCreate(infoOk, startOk)
  \/ \E trackOk \in BOOLEAN, added \in TrackIds \cup {NONE} :
       AddLocalVideoTrackResume("t1", trackOk, added)
  \/ AddLocalVideoTrackReturn("t1")

SpecCapture == InitCapture /\ [][NextCapture]_vars

\* A data channel is added while an engine thread delivers its events.
NextDataChannel ==
  \/ \E callbacks \in DataChannelCallbacks, res \in EngineResults :
       AddDataChannelCall(callbacks, res)
  \/ AddDataChannelAttach
  \/ AddDataChannelReturn
  \/ \E kind \in DataChannelKinds : DataChannelDeliver(kind)

SpecDataChannel == Init /\ [][NextDataChannel]_vars

\* Every filtered message against every capacity.
InitSdpForceCodecs ==
  /\ InitTracks
  /\ InitCallbacks
  /\ InitStats
  /\ InitDevices
  /\ InitDataChannel
  /\ InitSession
  /\ \E out_message \in SdpMessages, n \in Capacities :
       sdp = SdpArgs(out_message, n)
  /\ InitBitrate
  /\ InitMem
  /\ InitEnum

NextSdpForceCodecs ==
  \/ mrsSdpForceCodecs
  \/ SdpRetry

SpecSdpForceCodecs == InitSdpForceCodecs /\ [][NextSdpForceCodecs]_vars

\* Every subset of the three bounds, on a null and on a non-null handle.
NextSetBitrate ==
  \E peer \in PeerHandles, min_bps, start_bps, max_bps \in BitrateArgs,
     res \in EngineResults :
    mrsPeerConnectionSetBitrate(peer, min_bps, start_bps, max_bps, res)

SpecSetBitrate == Init /\ [][NextSetBitrate]_vars

\* Every element size, pair of strides and element count.
InitMemCpyStride ==
  /\ InitTracks
  /\ InitCallbacks
  /\ InitStats
  /\ InitDevices
  /\ InitDataChannel
  /\ InitSession
  /\ InitSdp
  /\ InitBitrate
  /\ \E elem_size \in 0..MaxElemSize, elem_count \in 0..MaxElemCount :
       \E dst_stride, src_stride \in elem_size..MaxStride :
         mem = MemArgs(dst_stride, src_stride, elem_size, elem_count)
  /\ InitEnum

NextMemCpyStride == mrsMemCpyStride

SpecMemCpyStride == InitMemCpyStride /\ [][NextMemCpyStride]_vars

\* The machine has any of the device lists.
InitEnumAsync ==
  /\ InitTracks
  /\ InitCallbacks
  /\ InitStats
  /\ config = VideoDeviceConfiguration("", 0, 0, 0)
  /\ devices \in DeviceLists
  /\ capture = NoCapture
  /\ InitDataChannel
  /\ InitSession
  /\ InitSdp
  /\ InitBitrate
  /\ InitMem
  /\ InitEnum

NextEnumAsync ==
  \/ \E enumCallback \in EnumCallbacks,
        completedCallback \in CompletedCallbacks, infoOk \in BOOLEAN :
       mrsEnumVideoCaptureDevicesAsync(enumCallback, completedCallback,
                                       infoOk)
  \/ \E device_id \in EnumDeviceIds, enumCallback \in EnumCallbacks,
        completedCallback \in CompletedCallbacks, infoOk \in BOOLEAN,
        unknown \in {{}, {1}} :
       mrsEnumVideoCaptureFormatsAsync(device_id, enumCallback,
                                       completedCallback, infoOk, unknown)

SpecEnumAsync == InitEnumAsync /\ [][NextEnumAsync]_vars

(***************************************************************************)
(* Properties: handle validation (SpecFacade)                              *)
(***************************************************************************)

\* The operations that take a session handle and return a result code.
SessionOps ==
  {"AddLocalVideoTrack", "AddLocalVideoTrackFromExternalSource",
   "RemoveLocalVideoTrack", "RemoveLocalVideoTracksFromSource",
   "AddLocalAudioTrack", "AddDataChannel", "RemoveDataChannel",
   "SetLocalAudioTrackEnabled", "AddIceCandidate", "CreateOffer",
   "CreateAnswer", "SetBitrate", "SetRemoteDescription", "Close",
   "GetSimpleStats", "RegisterInteropCallbacks"}

\* The operations that return a handle through an output pointer.
HandleOps ==
  {"Create", "AddLocalVideoTrack", "AddLocalVideoTrackFromExternalSource",
   "AddDataChannel"}

\* The arguments of the returned call other than the session handle are
\* valid: handles non-null, the output pointer non-null, the name of a
\* built-in capture track non-empty.
OtherArgsValid(call) ==
  /\ call.aux # NULL
  /\ call.op \in HandleOps => call.outPtr
  /\ call.op = "AddLocalVideoTrack" => ~IsStringNullOrEmpty(call.name)

\* C1: every operation that takes a session handle and returns a result
\* code, called with a null session handle and otherwise valid arguments,
\* returns invalid-native-handle and makes no call into the engine.
C1_NullSessionHandle ==
  (/\ last.op \in SessionOps
   /\ last.peer = NULL
   /\ OtherArgsValid(last))
  => (last.ret = kInvalidNativeHandle /\ ~last.engine)

\* The operations of SessionOps other than AddLocalAudioTrack do return
\* invalid-native-handle for a null session handle, and none of the sixteen
\* calls into the engine.
NullSessionHandleElsewhere ==
  (/\ last.op \in SessionOps
   /\ last.peer = NULL
   /\ OtherArgsValid(last))
  => /\ ~last.engine
     /\ last.op # "AddLocalAudioTrack" => last.ret = kInvalidNativeHandle

\* C2: a handle-returning operation called with a non-null output pointer
\* whose target holds a stale non-null value leaves null in it whenever it
\* returns a non-success code.
C2_OutputZeroedOnFailure ==
  (/\ last.op \in HandleOps
   /\ last.outPtr
   /\ last.ret # kSuccess)
  => last.out = NULL

\* The output handle is null after every failure that is detected after the
\* parameter checks: the stale value survives only an invalid-parameter
\* return.
OutputZeroedAfterParameterChecks ==
  (/\ last.op \in HandleOps
   /\ last.outPtr
   /\ last.ret \notin {kSuccess, kInvalidParameter})
  => last.out = NULL

(***************************************************************************)
(* Properties: track references (Spec)                                     *)
(***************************************************************************)

\* The references a track's holders account for: the session, the caller's
\* handle, and the temporary of a call that has not returned yet.
Holders(trk) ==
  (IF trk.inSession THEN 1 ELSE 0) + (IF trk.handle THEN 1 ELSE 0)
    + (IF trk.temp THEN 1 ELSE 0)

\* C3: after a successful add the track holds one reference for the session
\* and a separate one for the caller's handle; in every interleaving of the
\* caller's release and the session's removal the track is not destroyed
\* while either still holds it, and it is destroyed once both have released.
C3_TrackReferences ==
  \A id \in TrackIds :
    LET trk == tracks[id] IN
    /\ trk.status = "destroyed" => ~trk.inSession /\ ~trk.handle
    /\ trk.status = "alive" => trk.refs = Holders(trk) /\ trk.refs >= 1
    /\ (trk.inSession /\ trk.handle /\ ~trk.temp) => trk.refs = 2

\* C3 witness: both kinds of track went through it. A built-in capture track
\* is alive on the caller's handle alone after the session removed it, and
\* an external-source track was destroyed after both released it.
C3_Witness ==
  \E a, b \in TrackIds :
    /\ tracks[a].status = "alive" /\ ~tracks[a].ext
    /\ tracks[a].handle /\ ~tracks[a].inSession /\ tracks[a].refs = 1
    /\ tracks[b].status = "destroyed" /\ tracks[b].ext

(***************************************************************************)
(* Properties: the signaling thread (Spec)                                 *)
(***************************************************************************)

\* C4: the capture-device acquisition of an AddLocalVideoTrack call runs on
\* the signaling thread, never on the calling thread, and the calling thread
\* stays in Invoke until the acquisition has finished and produced its
\* result.
C4_AcquisitionOnSignalingThread ==
  /\ \A c \in creating : c.thread = SIG /\ c.thread # c.caller
  /\ \A t \in Callers :
       /\ taskState[t] \in {"queued", "running"} => pc[t] = "invoke"
       /\ (pc[t] = "handoff" /\ frame[t].op = "AddLocalVideoTrack")
          => (taskState[t] = "done" /\ frame[t].res = kSuccess)

\* C4 witness: an acquisition is running on the signaling thread while the
\* caller that submitted it is blocked in Invoke.
C4_Witness ==
  \E c \in creating :
    /\ c.thread = SIG
    /\ pc[c.caller] = "invoke"
    /\ taskState[c.caller] = "running"

\* s is a prefix of q.
IsPrefix(s, q) ==
  /\ Len(s) <= Len(q)
  /\ \A i \in 1..Len(s) : s[i] = q[i]

\* C5: the acquisitions submitted to the signaling thread through Invoke run
\* one at a time and in the order of their submission.
C5_InvokeOrder ==
  /\ Cardinality(creating) <= 1
  /\ IsPrefix(started, submitted)
  /\ \A i \in 1..Len(sigQueue) :
       sigQueue[i] = submitted[Len(started) + i]

\* C5 witness: two callers are in Invoke at once, the acquisition of the
\* first submitted is running and the other one waits in the queue.
C5_Witness ==
  /\ Len(submitted) = 2
  /\ submitted[1] # submitted[2]
  /\ creating = {[caller |-> submitted[1], thread |-> SIG]}
  /\ sigQueue = <<submitted[2]>>

(***************************************************************************)
(* Properties: callback slots (SpecCallbacks)                              *)
(***************************************************************************)

\* C6: an event is delivered to the callback of the last completed
\* registration of its own kind, whatever was registered before for that
\* kind and whatever is registered for the other kinds.
C6_OneSlotPerKind ==
  delivered.kind # NONE => delivered.cb = delivered.expected

\* C6 witness: an I420A frame went to callback B, the last registered for
\* I420A frames, while the ARGB32 slot holds callback A.
C6_Witness ==
  /\ delivered.kind = "I420ARemoteVideoFrame"
  /\ delivered.invoked
  /\ delivered.cb.callback_ = "B"
  /\ delivered.expected.callback_ = "B"
  /\ slots["Argb32RemoteVideoFrame"].callback_ = "A"

\* C7: a delivery that runs while a registration is in progress calls a
\* function pointer with the user data registered in the same call, and
\* calls nothing when the function pointer is null.
C7_NoTornCallback ==
  /\ delivered.invoked =>
       /\ delivered.cb.callback_ # NULL
       /\ <<delivered.cb.callback_, delivered.cb.user_data_>> \in CallbackArgs
  /\ (delivered.kind # NONE /\ delivered.cb.callback_ = NULL)
       => ~delivered.invoked

\* C7 witness: callback A was delivered to with its own user data while a
\* registration of callback B for the same kind was in progress.
C7_Witness ==
  /\ delivered.invoked
  /\ delivered.during = delivered.kind
  /\ delivered.cb = [callback_ |-> "A", user_data_ |-> "udA"]
  /\ regCall.fn = delivered.kind
  /\ regCall.cb.callback_ = "B"

(***************************************************************************)
(* Properties: statistics reports (SpecStats, SpecStatsJoin)               *)
(***************************************************************************)

\* C8: a delivered report carries exactly one reference of the caller; it
\* stays alive while the engine or the caller holds it and its count is zero
\* once both are gone.
C8_ReportReferences ==
  /\ report.status = "live" =>
       /\ report.refs = (IF report.engine THEN 1 ELSE 0)
                          + (IF report.caller THEN 1 ELSE 0)
       /\ report.refs >= 1
  /\ report.status = "freed" =>
       /\ report.refs = 0
       /\ ~report.engine
       /\ ~report.caller

\* C8 witness: the engine dropped its reference and the report is alive on
\* the caller's reference alone.
C8_Witness ==
  /\ report.status = "live"
  /\ ~report.engine
  /\ report.caller
  /\ report.refs = 1

\* The report with the records at positions i and j exchanged.
Swap(recs, i, j) ==
  [k \in 1..Len(recs) |->
     IF k = i THEN recs[j] ELSE IF k = j THEN recs[i] ELSE recs[k]]

\* Records i and j of the report are an outbound-RTP record and a non-remote
\* track record of the media kind of stats_type for one track id, and the
\* only such records for that id.
SenderPair(recs, i, j, stats_type) ==
  LET kind == IF stats_type = "AudioSenderStats" THEN "audio" ELSE "video"
      isRtp(k, id) == /\ recs[k].type = "outbound-rtp"
                      /\ recs[k].kind = kind
                      /\ recs[k].track_id = id
      isTrack(k, id) == /\ recs[k].type = "track"
                        /\ recs[k].kind = kind
                        /\ ~recs[k].remote_source
                        /\ recs[k].id = id
  IN  /\ recs[i].track_id # UNDEFINED
      /\ isRtp(i, recs[j].id)
      /\ isTrack(j, recs[j].id)
      /\ \A k \in 1..Len(recs) :
           k \notin {i, j} => ~isRtp(k, recs[j].id) /\ ~isTrack(k, recs[j].id)

\* The indices of the emitted records of a pending vector for a track id.
EmittedFor(pending, id) == {k \in 1..Len(pending) : pending[k].key = id}

\* C9: for the sender kinds, an outbound-RTP record and a non-remote track
\* record of the matching media kind for the same track id (the only ones
\* for that id) give exactly one emitted record, with the RTP fields of the
\* former and the track fields of the latter, and the same record when the
\* two exchange their places in the report.
C9_SenderJoin ==
  (/\ statsCall.ret = kSuccess
   /\ statsCall.handle = HND
   /\ statsCall.stats_type \in {"AudioSenderStats", "VideoSenderStats"})
  => \A i, j \in 1..Len(report.recs) :
       SenderPair(report.recs, i, j, statsCall.stats_type) =>
         LET rtp == report.recs[i]
             trk == report.recs[j]
             hits == EmittedFor(statsCall.pending, trk.id)
             other == GetObjectsPending(Swap(report.recs, i, j),
                                        statsCall.stats_type)
         IN  /\ Cardinality(hits) = 1
             /\ \A k \in hits :
                  LET e == statsCall.emitted[k] IN
                  /\ e.packets = rtp.packets
                  /\ e.bytes = rtp.bytes
                  /\ e.rtp_stats_timestamp_us = rtp.timestamp_us
                  /\ e.level = trk.level
                  /\ e.track_identifier = trk.track_identifier
                  /\ Cardinality(EmittedFor(other, trk.id)) = 1
                  /\ \A m \in EmittedFor(other, trk.id) : other[m].stats = e

\* C9 witness: a call for the audio senders on a report where the track
\* record comes before the outbound-RTP record of the same track, with a
\* third record between or around them.
C9_Witness ==
  /\ statsCall.ret = kSuccess
  /\ statsCall.stats_type = "AudioSenderStats"
  /\ Len(report.recs) = 3
  /\ \E i, j \in 1..Len(report.recs) :
       /\ j < i
       /\ SenderPair(report.recs, i, j, "AudioSenderStats")
       /\ \E k \in EmittedFor(statsCall.pending, report.recs[j].id) :
            /\ statsCall.emitted[k].packets = report.recs[i].packets
            /\ statsCall.emitted[k].packets > 0
            /\ statsCall.emitted[k].level = report.recs[j].level
            /\ statsCall.emitted[k].level > 0

\* A track id no record of StatsRecords uses.
UnusedTrackId == "T9"

\* The report with the track id of record i set to id.
WithTrackId(recs, i, id) == [recs EXCEPT ![i].track_id = id]

\* Record i is an outbound-RTP record of the media kind of stats_type with
\* an undefined track id.
TracklessSenderRtp(recs, i, stats_type) ==
  /\ recs[i].type = "outbound-rtp"
  /\ recs[i].kind = (IF stats_type = "AudioSenderStats" THEN "audio"
                     ELSE "video")
  /\ recs[i].track_id = UNDEFINED

\* C10: for the sender kinds, an outbound-RTP record of the matching media
\* kind with an undefined track id emits nothing: the callback is invoked
\* once less than for the report where that record has a defined track id
\* that nothing else uses.
C10_UndefinedTrackIdSkipped ==
  (/\ statsCall.ret = kSuccess
   /\ statsCall.handle = HND
   /\ statsCall.stats_type \in {"AudioSenderStats", "VideoSenderStats"})
  => \A i \in 1..Len(report.recs) :
       TracklessSenderRtp(report.recs, i, statsCall.stats_type) =>
         /\ Len(statsCall.emitted) =
              Len(Emitted(GetObjectsPending(
                    WithTrackId(report.recs, i, UnusedTrackId),
                    statsCall.stats_type))) - 1
         /\ \A k \in 1..Len(statsCall.pending) :
              statsCall.pending[k].key # Deref(UNDEFINED)

\* C10 witness: a call for the audio senders on a report holding an
\* outbound-RTP record without track id next to a joined pair, of which one
\* record is emitted.
C10_Witness ==
  /\ statsCall.ret = kSuccess
  /\ statsCall.stats_type = "AudioSenderStats"
  /\ Len(statsCall.emitted) = 1
  /\ statsCall.emitted[1].packets > 0
  /\ \E i \in 1..Len(report.recs) :
       TracklessSenderRtp(report.recs, i, "AudioSenderStats")

(***************************************************************************)
(* Properties: mrsStatsReportGetObjects, handle and kind (SpecStatsJoin)   *)
(***************************************************************************)

\* The six kind strings mrsStatsReportGetObjects recognises.
RecognisedKinds ==
  {"DataChannelStats", "AudioSenderStats", "AudioReceiverStats",
   "VideoSenderStats", "VideoReceiverStats", "TransportStats"}

\* C11: a call of mrsStatsReportGetObjects with a non-null report and a kind
\* string outside the six recognised ones invokes the callback zero times
\* and returns success; with a null report it returns invalid-native-handle
\* and invokes the callback zero times; no call changes the report.
C11_UnknownKindAndNullReport ==
  [][statsCall' # statsCall =>
       /\ report' = report
       /\ statsCall'.handle = NULL =>
            /\ statsCall'.ret = kInvalidNativeHandle
            /\ statsCall'.emitted = <<>>
       /\ (statsCall'.handle = HND
             /\ statsCall'.stats_type \notin RecognisedKinds) =>
            /\ statsCall'.ret = kSuccess
            /\ statsCall'.emitted = <<>>]_vars

\* C11 witness: a call with an unrecognised kind on a report that holds a
\* transport and a data-channel record returned success with no record
\* emitted.
C11_Witness ==
  /\ statsCall.handle = HND
  /\ statsCall.stats_type \notin RecognisedKinds
  /\ statsCall.stats_type # NONE
  /\ statsCall.ret = kSuccess
  /\ statsCall.emitted = <<>>
  /\ \E i, j \in 1..Len(report.recs) :
       /\ report.recs[i].type = "transport"
       /\ report.recs[j].type = "data-channel"

(***************************************************************************)
(* Properties: capture device selection (SpecCapture)                      *)
(***************************************************************************)

\* An AddLocalVideoTrack call that passed validation has returned, and
\* `capture` is what its device acquisition did with a DeviceInfo at hand.
AcquisitionDone ==
  /\ pc["t1"] = "idle"
  /\ last.op = "AddLocalVideoTrack"
  /\ last.engine
  /\ capture.res # NONE
  /\ capture.info

\* The devices the enumeration yields, in enumeration order.
Enumerated(devs) == LET named(d) == d.named IN SelectSeq(devs, named)

\* The candidate devices: the enumerated device with the id asked for, or
\* all enumerated devices when no id is given.
Candidates(cfg, devs) ==
  LET wanted(d) == cfg.video_device_id = "" \/ d.id = cfg.video_device_id
  IN  SelectSeq(Enumerated(devs), wanted)

\* A framerate given in tenths, rounded to the nearest integer.
NearestInteger(x10) ==
  CHOOSE n \in 0..1000 : 10 * n - 5 <= x10 /\ x10 < 10 * n + 5

ZeroFilter(cfg) == cfg.width = 0 /\ cfg.height = 0 /\ cfg.framerate_x10 = 0

\* The capability equals the filter on every non-zero field of the filter.
Satisfies(cfg, cap) ==
  /\ cfg.width # 0 => cap.width = cfg.width
  /\ cfg.height # 0 => cap.height = cfg.height
  /\ cfg.framerate_x10 # 0 => cap.maxFPS = NearestInteger(cfg.framerate_x10)

\* The three fields of a listed capability.
Fields(cap) == [width |-> cap.width, height |-> cap.height,
                maxFPS |-> cap.maxFPS]

\* The device lists a capability that can be read and satisfies the filter.
HasMatch(cfg, d) ==
  \E i \in 1..Len(d.caps) : d.caps[i].readable /\ Satisfies(cfg, d.caps[i])

\* C12 as stated: with no device id and an all-zero filter, capture is
\* started on the first enumerated device with its capability at index 0
\* whenever a device is enumerated, and not-found is returned when none is.
C12_FirstEnumeratedDevice ==
  (AcquisitionDone /\ config.video_device_id = "" /\ ZeroFilter(config)) =>
    LET e == Enumerated(devices) IN
    IF Len(e) = 0 THEN last.ret = kNotFound
    ELSE /\ capture.startCapture
         /\ capture.device = e[1].id
         /\ (Len(e[1].caps) >= 1 /\ e[1].caps[1].readable)
              => capture.capability = Fields(e[1].caps[1])

\* C12 as amended: with no device id and an all-zero filter, capture is
\* started on the first enumerated device that can be opened, with that
\* device's capability at index 0 (a default capability when it cannot be
\* read), and no other device is opened; not-found is returned exactly when
\* no device is enumerated, invalid-operation when none can be opened.
C12_FirstOpenableDevice ==
  (AcquisitionDone /\ config.video_device_id = "" /\ ZeroFilter(config)) =>
    LET e == Enumerated(devices)
        opens(d) == d.opens
        o == SelectSeq(e, opens)
    IN  /\ Len(e) = 0 <=> last.ret = kNotFound
        /\ (Len(e) >= 1 /\ Len(o) = 0) =>
             /\ last.ret = kInvalidOperation
             /\ ~capture.startCapture
        /\ Len(o) >= 1 =>
             /\ capture.startCapture
             /\ capture.device = o[1].id
             /\ capture.opened = <<o[1].id>>
             /\ capture.capability =
                  IF Len(o[1].caps) >= 1 /\ o[1].caps[1].readable
                    THEN Fields(o[1].caps[1]) ELSE DefaultCapability

\* C12 witness: the first enumerated device could not be opened, and the
\* track was added on the second one with its capability at index 0.
C12_Witness ==
  /\ AcquisitionDone
  /\ config.video_device_id = ""
  /\ ZeroFilter(config)
  /\ last.ret = kSuccess
  /\ Len(devices) = 2
  /\ devices[1].named /\ ~devices[1].opens
  /\ capture.device = devices[2].id
  /\ Len(devices[2].caps) >= 1
  /\ capture.capability = Fields(devices[2].caps[1])

\* C13: with a non-zero filter and a successful acquisition, the capability
\* capture was started with equals the filter on every non-zero field.
C13_StartedCapabilityMatchesFilter ==
  (AcquisitionDone /\ ~ZeroFilter(config) /\ capture.res = kSuccess) =>
    Satisfies(config, capture.capability)

\* With a single candidate device the capability capture is started with
\* does equal the filter on every non-zero field.
SingleCandidateCapabilityMatches ==
  (/\ AcquisitionDone
   /\ ~ZeroFilter(config)
   /\ capture.res = kSuccess
   /\ Len(Candidates(config, devices)) = 1)
  => Satisfies(config, capture.capability)

\* C14: with no device id and a non-zero filter, the device used is the
\* first in enumeration order that has a matching capability and can be
\* opened, and no later device is opened once it has been.
C14_FirstMatchingDeviceOnly ==
  (AcquisitionDone /\ config.video_device_id = "" /\ ~ZeroFilter(config)) =>
    LET usable(d) == d.opens /\ HasMatch(config, d)
        u == SelectSeq(Enumerated(devices), usable)
    IN  Len(u) >= 1 =>
          /\ capture.device = u[1].id
          /\ capture.opened = <<u[1].id>>

\* C15: a lookup with zero matches ends in not-found: the device id matches
\* no device, no device is enumerated, or no capability of any candidate
\* device matches the non-zero filter.
C15_ZeroMatchesIsNotFound ==
  AcquisitionDone =>
    LET c == Candidates(config, devices) IN
    /\ Len(c) = 0 => last.ret = kNotFound
    /\ (/\ Len(c) >= 1
        /\ ~ZeroFilter(config)
        /\ \A i \in 1..Len(c) : ~HasMatch(config, c[i]))
       => last.ret = kNotFound

\* Zero candidate devices, with or without a device id, do end in not-found.
NoCandidateIsNotFound ==
  (AcquisitionDone /\ Len(Candidates(config, devices)) = 0)
  => last.ret = kNotFound

(***************************************************************************)
(* Properties: the engine factory (SpecFacade)                             *)
(***************************************************************************)

\* The operations that need the engine factory.
FactoryOps ==
  {"AddLocalVideoTrack", "AddLocalVideoTrackFromExternalSource",
   "AddLocalAudioTrack"}

\* C16: with the engine factory not initialised, an operation that needs
\* it, called with valid arguments and non-null handles, returns
\* invalid-operation and adds no track to the session.
C16_FactoryNotInitialised ==
  (/\ ~factory
   /\ last.op \in FactoryOps
   /\ last.peer # NULL
   /\ OtherArgsValid(last))
  => /\ last.ret = kInvalidOperation
     /\ \A id \in TrackIds : ~tracks[id].inSession

\* Without the factory no operation adds a track, and the two operations
\* other than AddLocalVideoTrackFromExternalSource return invalid-operation.
FactoryNotInitialisedElsewhere ==
  (/\ ~factory
   /\ last.op \in FactoryOps
   /\ last.peer # NULL
   /\ OtherArgsValid(last))
  => /\ \A id \in TrackIds : ~tracks[id].inSession
     /\ last.op # "AddLocalVideoTrackFromExternalSource"
          => last.ret = kInvalidOperation

(***************************************************************************)
(* Properties: data channel callbacks (SpecDataChannel)                    *)
(***************************************************************************)

\* C17: when the engine creates the channel, mrsPeerConnectionAddDataChannel
\* attaches the message, buffering and state callbacks carried in the call
\* before it returns success with a non-null handle, so an event delivered
\* after the caller received the handle meets the callback of its kind
\* carried in the call; when the engine rejects the creation the engine's
\* code is returned unchanged and the output handle is null.
C17_CallbacksAttachedBeforeReturn ==
  /\ (dc.pos = "returned" /\ dc.engineRes = kSuccess) =>
       /\ dc.ret = kSuccess
       /\ dc.out = HND
       /\ \A k \in DataChannelKinds : dc.slots[k] = dc.callbacks[k]
  /\ (dcDelivered.kind # NONE /\ dcDelivered.handed) =>
       dcDelivered.cb = dc.callbacks[dcDelivered.kind]
  /\ (dc.pos = "returned" /\ dc.engineRes # kSuccess) =>
       /\ dc.ret = dc.engineRes
       /\ dc.out = NULL
       /\ ~dc.exists

\* C17 witness: the call returned success and a state event delivered
\* afterwards invoked the state callback carried in the call.
C17_Witness ==
  /\ dc.pos = "returned"
  /\ dc.ret = kSuccess
  /\ dc.out = HND
  /\ dcDelivered.kind = "state"
  /\ dcDelivered.handed
  /\ dcDelivered.invoked
  /\ dcDelivered.cb = dc.callbacks["state"]
  /\ dc.callbacks["state"].callback_ = "B"
  /\ dc.callbacks["message"].callback_ = "A"

(***************************************************************************)
(* Properties: closing the session (SpecFacade)                            *)
(***************************************************************************)

\* A call of mrsPeerConnectionClose on a null handle leaves the session and
\* its tracks as they were.
NullCloseChangesNothing ==
  (last' # last /\ last'.op = "Close" /\ last'.peer = NULL) =>
    /\ session' = session
    /\ tracks' = tracks

\* C18: mrsPeerConnectionClose on a null handle is a no-op returning
\* kInvalidNativeHandle; on a non-null handle every Close, a second one
\* included, is delegated to the engine and returns kSuccess, no Close
\* releases the session object, and no call reaches the destroyed object.
C18_CloseTwice ==
  /\ [](/\ (last.op = "Close" /\ last.peer = NULL) =>
             (last.ret = kInvalidNativeHandle /\ ~last.engine)
        /\ (last.op = "Close" /\ last.peer # NULL) =>
             (last.ret = kSuccess /\ last.engine /\ session.state = "closed")
        /\ ~session.released
        /\ ~session.crashed)
  /\ [][NullCloseChangesNothing]_vars

\* C18 witness: a second Close on the same non-null handle returned.
C18_Witness ==
  /\ session.again
  /\ session.state = "closed"
  /\ last.op = "Close"
  /\ last.peer # NULL
  /\ last.ret = kSuccess

(***************************************************************************)
(* Properties: the buffer of mrsSdpForceCodecs (SpecSdpForceCodecs)        *)
(***************************************************************************)

\* C19: after every call *buffer_size holds the length of the filtered SDP
\* plus one; a capacity below that gives kInvalidParameter and the buffer
\* as it was; a capacity of at least that gives kSuccess and the buffer
\* holding the filtered SDP followed by a null; a call made with a buffer of
\* the reported size succeeds.
C19_RequiredSizeReported ==
  sdp.calls > 0 =>
    /\ sdp.buffer_size = Len(sdp.out_message) + 1
    /\ (sdp.capacity < Len(sdp.out_message) + 1 /\ sdp.ret # NONE) =>
         /\ sdp.ret = kInvalidParameter
         /\ sdp.buffer = sdp.before
    /\ (sdp.capacity >= Len(sdp.out_message) + 1 /\ sdp.ret # NONE) =>
         /\ sdp.ret = kSuccess
         /\ SubSeq(sdp.buffer, 1, Len(sdp.out_message) + 1)
              = sdp.out_message \o <<NUL>>
         /\ \A i \in (Len(sdp.out_message) + 2)..Len(sdp.buffer) :
              sdp.buffer[i] = sdp.before[i]
    /\ (sdp.retry /\ sdp.ret # NONE) => sdp.ret = kSuccess

\* C19 witness: a call with too small a capacity was followed by a call with
\* the reported size, which filled the buffer exactly.
C19_Witness ==
  /\ sdp.retry
  /\ sdp.calls = 2
  /\ sdp.ret = kSuccess
  /\ Len(sdp.out_message) = 2
  /\ sdp.capacity = 3
  /\ sdp.buffer = sdp.out_message \o <<NUL>>

(***************************************************************************)
(* Properties: the bitrate settings (SpecSetBitrate)                       *)
(***************************************************************************)

\* What the engine is to find in a bound of the settings for an argument.
ExpectedBound(bps) == [has |-> ~(bps < 0), v |-> IF bps < 0 THEN 0 ELSE bps]

\* A call with a non-null handle hands the engine settings whose bounds
\* follow the three arguments one by one, and returns the engine's result.
SetBitrateStep(min_bps, start_bps, max_bps, res) ==
  mrsPeerConnectionSetBitrate(PEER, min_bps, start_bps, max_bps, res) =>
    /\ bitrate'.min_bitrate_bps = ExpectedBound(min_bps)
    /\ bitrate'.start_bitrate_bps = ExpectedBound(start_bps)
    /\ bitrate'.max_bitrate_bps = ExpectedBound(max_bps)
    /\ last'.ret = res
    /\ last'.engine

\* C20: mrsPeerConnectionSetBitrate passes to the engine settings in which
\* each of min, start and max is set exactly when its argument is not
\* negative (zero is set) and unset when it is negative, whatever the other
\* two are, and returns the engine's result unchanged.
C20_BitrateBoundsIndependent ==
  [][\A min_bps, start_bps, max_bps \in BitrateArgs, res \in EngineResults :
       SetBitrateStep(min_bps, start_bps, max_bps, res)]_vars

\* C20 witness: a call set min to zero and max to 1000, left start unset,
\* and returned the engine's error.
C20_Witness ==
  /\ last.op = "SetBitrate"
  /\ last.ret = kInvalidOperation
  /\ bitrate.min_bitrate_bps = [has |-> TRUE, v |-> 0]
  /\ bitrate.start_bitrate_bps = Unset
  /\ bitrate.max_bitrate_bps = [has |-> TRUE, v |-> 1000]

(***************************************************************************)
(* Properties: the strided copy (SpecMemCpyStride)                         *)
(***************************************************************************)

\* The offsets of the destination that belong to an element.
ElementOffsets ==
  {i * mem.dst_stride + j : i \in 0..(mem.elem_count - 1),
                            j \in 0..(mem.elem_size - 1)}

\* C21: after mrsMemCpyStride, for every i below elem_count the elem_size
\* bytes at dst + i * dst_stride are those at src + i * src_stride, on the
\* single-copy path and on the row-by-row path alike, for every elem_count
\* from 0 on; the bytes of dst between the elements and behind the last one
\* are as they were.
C21_StridedCopy ==
  mem.done =>
    /\ \A i \in 0..(mem.elem_count - 1), j \in 0..(mem.elem_size - 1) :
         mem.dst[i * mem.dst_stride + j + 1]
           = SourceBytes(Len(mem.src))[i * mem.src_stride + j + 1]
    /\ \A k \in 0..(Len(mem.dst) - 1) :
         k \notin ElementOffsets => mem.dst[k + 1] = BLANK

\* C21 witness: three packed elements of two bytes were copied in one piece.
C21_Witness ==
  /\ mem.done
  /\ mem.elem_size = 2
  /\ mem.dst_stride = 2
  /\ mem.src_stride = 2
  /\ mem.elem_count = 3
  /\ mem.dst = <<1, 2, 3, 4, 5, 6, BLANK>>

\* The row-by-row path with padding on both sides was taken.
StridedRowsCopied ==
  /\ mem.done
  /\ mem.elem_size = 2
  /\ mem.dst_stride = 3
  /\ mem.src_stride = 3
  /\ mem.elem_count = 2
  /\ mem.dst = <<1, 2, BLANK, 4, 5, BLANK, BLANK>>

(***************************************************************************)
(* Properties: the receiver kinds of the join (SpecStatsJoin)              *)
(***************************************************************************)

\* Record i is an inbound-RTP record of the media kind of stats_type with an
\* undefined track id.
TracklessReceiverRtp(recs, i, stats_type) ==
  /\ recs[i].type = "inbound-rtp"
  /\ recs[i].kind = (IF stats_type = "AudioReceiverStats" THEN "audio"
                     ELSE "video")
  /\ recs[i].track_id = UNDEFINED

\* C22: for the receiver kinds, an inbound-RTP record of the matching media
\* kind with an undefined track id is skipped: the call returns success
\* without reading the track id, the callback is invoked once less than for
\* the report where that record has a defined track id that nothing else
\* uses, and no record is emitted under the key of an undefined id.
C22_ReceiverUndefinedTrackIdSkipped ==
  (/\ statsCall.handle = HND
   /\ statsCall.stats_type \in {"AudioReceiverStats", "VideoReceiverStats"})
  => \A i \in 1..Len(report.recs) :
       TracklessReceiverRtp(report.recs, i, statsCall.stats_type) =>
         /\ statsCall.ret = kSuccess
         /\ Len(statsCall.emitted) =
              Len(Emitted(GetObjectsPending(
                    WithTrackId(report.recs, i, UnusedTrackId),
                    statsCall.stats_type))) - 1
         /\ \A k \in 1..Len(statsCall.pending) :
              statsCall.pending[k].key # Deref(UNDEFINED)

\* In a build without assertions the inbound-RTP record without track id
\* is emitted under the empty key.
TracklessReceiverEmitted ==
  /\ statsCall.handle = HND
  /\ statsCall.stats_type = "AudioReceiverStats"
  /\ statsCall.ret = kSuccess
  /\ Len(report.recs) = 1
  /\ TracklessReceiverRtp(report.recs, 1, "AudioReceiverStats")
  /\ Len(statsCall.emitted) = 1
  /\ statsCall.pending[1].key = ""

(***************************************************************************)
(* Properties: one record per track id, in first-seen order (SpecStatsJoin) *)
(***************************************************************************)

JoinedKinds ==
  {"AudioSenderStats", "AudioReceiverStats", "VideoSenderStats",
   "VideoReceiverStats"}

\* The media kind, RTP record type and track side a joined kind asks for.
KindOf(stats_type) ==
  IF stats_type \in {"AudioSenderStats", "AudioReceiverStats"} THEN "audio"
  ELSE "video"

DirectionOf(stats_type) ==
  IF stats_type \in {"AudioSenderStats", "VideoSenderStats"}
    THEN "outbound-rtp" ELSE "inbound-rtp"

RemoteSide(stats_type) ==
  stats_type \in {"AudioReceiverStats", "VideoReceiverStats"}

\* Record rec is a qualifying RTP record, or a qualifying track record.
IsQualifyingRtp(rec, stats_type) ==
  /\ rec.type = DirectionOf(stats_type)
  /\ rec.kind = KindOf(stats_type)
  /\ rec.track_id # UNDEFINED

IsQualifyingTrack(rec, stats_type) ==
  /\ rec.type = "track"
  /\ rec.kind = KindOf(stats_type)
  /\ rec.remote_source = RemoteSide(stats_type)

\* The track id a qualifying record stands for, NONE for any other record.
QualifyingId(rec, stats_type) ==
  IF IsQualifyingRtp(rec, stats_type) THEN rec.track_id
  ELSE IF IsQualifyingTrack(rec, stats_type) THEN rec.id
  ELSE NONE

\* The places of the report where a track id appears for the first time.
FirstAppearances(recs, stats_type) ==
  {i \in 1..Len(recs) :
     /\ QualifyingId(recs[i], stats_type) # NONE
     /\ \A j \in 1..(i - 1) :
          QualifyingId(recs[j], stats_type)
            # QualifyingId(recs[i], stats_type)}

\* The callback was invoked once per distinct track id of the qualifying
\* records, in the order of first appearance; a track id without qualifying
\* track record has zero track fields and one without qualifying RTP record
\* zero RTP fields.
OncePerTrackId(recs, stats_type, pending) ==
  LET firsts == FirstAppearances(recs, stats_type) IN
  /\ Len(pending) = Cardinality(firsts)
  /\ \A i \in firsts :
       LET k == Cardinality({j \in firsts : j < i}) + 1
           id == QualifyingId(recs[i], stats_type)
       IN  /\ pending[k].key = id
           /\ (\A n \in 1..Len(recs) :
                 ~(IsQualifyingTrack(recs[n], stats_type) /\ recs[n].id = id))
              => /\ pending[k].stats.track_stats_timestamp_us = 0
                 /\ pending[k].stats.track_identifier = ""
                 /\ pending[k].stats.level = 0
           /\ (\A n \in 1..Len(recs) :
                 ~(IsQualifyingRtp(recs[n], stats_type)
                   /\ recs[n].track_id = id))
              => /\ pending[k].stats.rtp_stats_timestamp_us = 0
                 /\ pending[k].stats.packets = 0
                 /\ pending[k].stats.bytes = 0

\* C23: for each of the four sender and receiver kinds
\* mrsStatsReportGetObjects invokes the callback exactly once per distinct
\* track id of the qualifying records (RTP records of the direction and
\* media kind with a defined track id, track records of the media kind and
\* side), in the order in which the ids first appear in the report; an id
\* seen in one record kind only yields a record whose other fields are zero.
C23_OncePerTrackIdInFirstSeenOrder ==
  (statsCall.handle = HND /\ statsCall.stats_type \in JoinedKinds) =>
    /\ statsCall.ret = kSuccess
    /\ OncePerTrackId(report.recs, statsCall.stats_type, statsCall.pending)

\* The same for the calls that read no undefined track id.
OncePerTrackIdWhereDefined ==
  (/\ statsCall.handle = HND
   /\ statsCall.stats_type \in JoinedKinds
   /\ ~DerefsUndefined(report.recs, statsCall.stats_type)) =>
    /\ statsCall.ret = kSuccess
    /\ OncePerTrackId(report.recs, statsCall.stats_type, statsCall.pending)

\* Two track ids were emitted in the order of their first appearance, the
\* second from a track record alone.
TwoTrackIdsInOrder ==
  /\ statsCall.handle = HND
  /\ statsCall.stats_type = "AudioSenderStats"
  /\ Len(statsCall.pending) = 2
  /\ statsCall.pending[1].key = "T2"
  /\ statsCall.pending[2].key = "T1"
  /\ statsCall.pending[2].stats.packets > 0
  /\ statsCall.pending[1].stats.packets = 0

(***************************************************************************)
(* Properties: capture modules after a failed call (SpecCapture)           *)
(***************************************************************************)

\* The call of mrsPeerConnectionAddLocalVideoTrack that ran the most recent
\* Create has returned a code other than success.
AddLocalVideoTrackFailed ==
  /\ pc["t1"] = "idle"
  /\ last.op = "AddLocalVideoTrack"
  /\ last.ret # kSuccess
  /\ capture.res # NONE

\* C24: when mrsPeerConnectionAddLocalVideoTrack has returned a code other
\* than success, no capture device is capturing, no capture module is alive
\* or registered with a source and no source object is left, whichever
\* devices the call opened and wherever it failed.
C24_NothingLeftOpenOnFailure ==
  AddLocalVideoTrackFailed =>
    /\ capture.capturing = {}
    /\ capture.registered = {}
    /\ capture.live = {}
    /\ ~capture.source

\* C24 witness: the filter loop opened two devices, capture started on the
\* second, and the call failed afterwards.
C24_Witness ==
  /\ AddLocalVideoTrackFailed
  /\ Len(capture.opened) = 2
  /\ capture.startCapture
  /\ capture.res = kSuccess
  /\ last.ret = kUnknownError
  /\ capture.live = {}

\* StartCapture failed on the device that was opened.
StartCaptureFailedAndReleased ==
  /\ AddLocalVideoTrackFailed
  /\ capture.startCapture
  /\ capture.res = kUnknownError
  /\ capture.opened # <<>>
  /\ capture.live = {}

\* The filter loop opened a device and lost it to a later device that did
\* not open.
OpenedThenNoneSelected ==
  /\ AddLocalVideoTrackFailed
  /\ capture.res = kInvalidOperation
  /\ capture.opened # <<>>
  /\ capture.live = {}

\* While a successful call holds the device, it is the one device alive and
\* capturing.
SelectedDeviceCapturing ==
  (capture.res = kSuccess /\ capture.source) =>
    /\ capture.live = {capture.device}
    /\ capture.capturing = {capture.device}
    /\ capture.registered = {capture.device}

(***************************************************************************)
(* Properties: the completed callback of the enumerations (SpecEnumAsync)  *)
(***************************************************************************)

\* The arguments of the call passed the parameter validation.
EnumValidationPassed ==
  /\ enumCall.enumCallback # NULL
  /\ enumCall.op = "EnumVideoCaptureFormatsAsync" =>
       (enumCall.device_id # NULL /\ enumCall.device_id # "")

\* The completed callback ran exactly once, after every enum callback.
CompletedOnceAtTheEnd ==
  /\ enumCall.events # <<>>
  /\ enumCall.events[Len(enumCall.events)].cb = "completed"
  /\ \A k \in 1..(Len(enumCall.events) - 1) : enumCall.events[k].cb = "enum"

\* What the claim says of a returned call.
CompletedContract ==
  /\ (EnumValidationPassed /\ enumCall.completedCallback # NULL) =>
       CompletedOnceAtTheEnd
  /\ ~EnumValidationPassed =>
       (enumCall.events = <<>> /\ enumCall.ret = kInvalidParameter)

\* C25: for mrsEnumVideoCaptureDevicesAsync and
\* mrsEnumVideoCaptureFormatsAsync, when the parameter validation passes and
\* a completed callback is supplied, the completed callback is invoked
\* exactly once, after every enum callback of the call and before the call
\* returns, on success and on failure alike; when the validation fails no
\* callback is invoked.
C25_CompletedExactlyOnce ==
  enumCall.op # NONE => CompletedContract

\* The same for mrsEnumVideoCaptureDevicesAsync, and for
\* mrsEnumVideoCaptureFormatsAsync when CreateDeviceInfo gave an object.
CompletedExactlyOnceElsewhere ==
  (/\ enumCall.op # NONE
   /\ enumCall.op = "EnumVideoCaptureFormatsAsync" => enumCall.info)
  => CompletedContract

\* The formats of a device were enumerated and the completed callback
\* followed two enum callbacks.
FormatsEnumeratedThenCompleted ==
  /\ enumCall.op = "EnumVideoCaptureFormatsAsync"
  /\ enumCall.ret = kSuccess
  /\ Len(enumCall.events) = 3
  /\ CompletedOnceAtTheEnd

\* The device enumeration failed and the completed callback ran all the
\* same.
DevicesFailedThenCompleted ==
  /\ enumCall.op = "EnumVideoCaptureDevicesAsync"
  /\ enumCall.ret = kUnknownError
  /\ enumCall.events = <<CallbackEvent("completed", 0)>>

====
